---- MODULE Spec2Model ----
(***************************************************************************)
(* Supplier pricelist merger: cost-price column detection, column pruning  *)
(* and markup calculation, as implemented by CostPriceDetectionServiceImpl,*)
(* MarkupCalculationServiceImpl and the pricelist store.                   *)
(*                                                                         *)
(* Representation.                                                         *)
(*  - A JavaScript string is a sequence of one-character strings.          *)
(*  - A JavaScript number that is a cell value, a cost or a price is an    *)
(*    exact decimal [c, d] = c / 10^d, kept normalised (d is the number of *)
(*    digits Number.prototype.toString prints after the point); NaN is a   *)
(*    record of its own.  decimal.js values use the same representation.   *)
(*  - Scores and confidences are exact rationals [num, den].               *)
(*  - A CellValue is a record [k, n, s, b]: its kind and its payload.      *)
(*  - Array indices are 0-based as in the source (At, FindIndex).          *)
(***************************************************************************)
EXTENDS Bags, FiniteSets, Integers, Sequences, TLC

VARIABLES
    costValue,          \* calculateSingleMarkup: argument costValue
    markupPercentage,   \* calculateSingleMarkup: argument markupPercentage
    decimalPlaces,      \* calculateSingleMarkup: argument decimalPlaces
    markupPrice,        \* calculateSingleMarkup: the value returned
    calls,              \* how many times the function was called on these inputs
    originalData,       \* the sheet: row 0 the headers, then the data rows
    costColumnIndex,    \* the cost column handed to the markup service
    markupConfig,       \* MarkupConfiguration
    markupResult,       \* ProcessingResult of calculateMarkupColumns
    dataWithMarkup,     \* the sheet applyMarkupCalculations returns
    keptColumns,        \* columnsToKeep, as removeEmptyColumns logs it
    adjustedCostColumnIndex, \* as applyMarkupCalculations logs it
    status,             \* ProcessingStatus of the sheet
    options,            \* detectCostPriceColumn: opts, the defaults merged in
    detection,          \* detectCostPriceColumn: the DetectionResult returned
    strategiesRun,      \* the strategy methods the call ran, in order
    parseArgument,      \* parseNumericValue: argument value, a text
    parseReturn,        \* parseNumericValue: the value returned
    rawData,            \* parseFile: jsonData, the rows read from the worksheet
    headerRowIndex,     \* parseFile: the value findHeaderRow returned
    parseFileResult,    \* parseFile: the outcome, as far as the header search decides it
    priceHeaders,       \* findBestPriceColumn: argument headers
    bestPriceColumn,    \* findBestPriceColumn: the index returned, -2 before the call
    exportVariant,      \* which of the two copies of the export service is called
    pricelists,         \* generateConsolidatedWorkbook: argument pricelists
    exportResult,        \* generateConsolidatedWorkbook: the ProcessingResult and the workbook's sheets
    files, \* the store: files, the SupplierPricelist entries
    nextId, \* the store: _nextId
    timers, \* the setTimeout callbacks of addFiles not run yet, each [id, file]
    reading, \* the calls of parseAndProcessFile awaiting parseFile, each [id, file]
    globalProgress \* the store: globalProgress

markupVars == <<costValue, markupPercentage, decimalPlaces, markupPrice, calls>>

sheetVars == <<originalData, costColumnIndex, markupConfig, markupResult, dataWithMarkup,
               keptColumns, adjustedCostColumnIndex, status>>

detectVars == <<options, detection, strategiesRun>>

parseVars == <<parseArgument, parseReturn>>

fileVars == <<rawData, headerRowIndex, parseFileResult>>

reindexVars == <<priceHeaders, bestPriceColumn>>

exportVars == <<exportVariant, pricelists, exportResult>>

storeVars == <<files, nextId, timers, reading, globalProgress>>

vars == <<markupVars, sheetVars, detectVars, parseVars, fileVars,
         reindexVars,
         exportVars,
         storeVars>>

\* ------------------------------------------------------------------ bounds

\* How many times one call is repeated on the same inputs.
MaxCalls == 2

\* The most data rows of a sheet handed to the markup service.
MaxDataRows == 2

\* The most data rows of a sheet handed to the detection service.
MaxDetectRows == 5

\* ----------------------------------------------------------------- strings

UpperChars == <<"A","B","C","D","E","F","G","H","I","J","K","L","M",
                "N","O","P","Q","R","S","T","U","V","W","X","Y","Z">>
LowerChars == <<"a","b","c","d","e","f","g","h","i","j","k","l","m",
                "n","o","p","q","r","s","t","u","v","w","x","y","z">>
DigitChars == <<"0","1","2","3","4","5","6","7","8","9">>

Range(seq) == { seq[i] : i \in DOMAIN seq }

IsDigit(ch) == ch \in Range(DigitChars)

DigitVal(ch) == (CHOOSE i \in DOMAIN DigitChars : DigitChars[i] = ch) - 1

\* \s of a JavaScript regular expression and of String.prototype.trim
\* ("nbsp" stands for U+00A0).
IsSpace(ch) == ch \in {" ", "\t", "\n", "nbsp"}

\* The lower-case letter of each upper-case letter.
LowerOf ==
    [ch \in Range(UpperChars) |->
        LowerChars[CHOOSE i \in DOMAIN UpperChars : UpperChars[i] = ch]]

LowerChar(ch) == IF ch \in DOMAIN LowerOf THEN LowerOf[ch] ELSE ch

toLowerCase(s) == [i \in DOMAIN s |-> LowerChar(s[i])]

RECURSIVE TrimStart(_)
TrimStart(s) ==
    IF s # <<>> /\ IsSpace(Head(s)) THEN TrimStart(Tail(s)) ELSE s

RECURSIVE TrimEnd(_)
TrimEnd(s) ==
    IF s # <<>> /\ IsSpace(s[Len(s)]) THEN TrimEnd(SubSeq(s, 1, Len(s) - 1)) ELSE s

trim(s) == TrimEnd(TrimStart(s))

\* String.prototype.indexOf: 0-based position of the first occurrence, or -1.
indexOf(s, sub) ==
    LET hits == { i \in 0..(Len(s) - Len(sub)) : SubSeq(s, i + 1, i + Len(sub)) = sub }
    IN IF hits = {} THEN 0 - 1
       ELSE CHOOSE i \in hits : \A j \in hits : i <= j

\* String.prototype.includes: sub occurs somewhere in s.
includes(s, sub) ==
    \E i \in 0..(Len(s) - Len(sub)) : \A j \in DOMAIN sub : s[i + j] = sub[j]

\* String.prototype.replace(/[class]/g, ''): the characters not in the class.
RemoveChars(s, InClass(_)) == SelectSeq(s, LAMBDA ch : ~InClass(ch))

\* ----------------------------------------------------------------- numbers

RECURSIVE Pow10(_)
Pow10(k) == IF k <= 0 THEN 1 ELSE 10 * Pow10(k - 1)

Abs(x) == IF x < 0 THEN 0 - x ELSE x

NaN == [c |-> 0, d |-> 0 - 1]

isNaN(x) == x.d < 0

\* c / 10^d with the trailing zeros of the fraction dropped.
RECURSIVE Norm(_, _)
Norm(c, d) ==
    IF d > 0 /\ c % 10 = 0 THEN Norm(c \div 10, d - 1) ELSE [c |-> c, d |-> d]

IntNum(i) == [c |-> i, d |-> 0]

\* The number literal c / 10^d.
Dec(c, d) == Norm(c, d)

NumLess(x, y) == x.c * Pow10(y.d) < y.c * Pow10(x.d)

NumLeq(x, y) == x.c * Pow10(y.d) <= y.c * Pow10(x.d)

NumAbs(x) == [c |-> Abs(x.c), d |-> x.d]

\* x / 100 for a number x (exact in decimal).
NumDiv100(x) == Norm(x.c, x.d + 2)

\* ------------------------------------------------------------- cell values

Cell(k, n, s, b) == [k |-> k, n |-> n, s |-> s, b |-> b]

Null == Cell("null", IntNum(0), <<>>, FALSE)

Undefined == Cell("undefined", IntNum(0), <<>>, FALSE)

NumCell(x) == Cell("number", x, <<>>, FALSE)

StrCell(s) == Cell("string", IntNum(0), s, FALSE)

BoolCell(b) == Cell("boolean", IntNum(0), <<>>, b)

EmptyString == StrCell(<<>>)

\* arr[i] with a 0-based index; undefined outside the array.
At(arr, i) == IF i >= 0 /\ i < Len(arr) THEN arr[i + 1] ELSE Undefined

\* ---------------------------------------------------------- parseFloat

RECURSIVE DigitRunEnd(_, _)
DigitRunEnd(s, i) ==
    IF i <= Len(s) /\ IsDigit(s[i]) THEN DigitRunEnd(s, i + 1) ELSE i

RECURSIVE DigitsValue(_, _, _)
DigitsValue(s, i, j) ==
    IF j <= i THEN 0 ELSE 10 * DigitsValue(s, i, j - 1) + DigitVal(s[j - 1])

\* The global parseFloat: leading white space is skipped, then the longest
\* prefix [+-]digits[.digits] is read; NaN when that prefix has no digit.
\* (Exponents and "Infinity" do not occur in the strings of this model.)
parseFloat(s) ==
    LET \* t[p0 .. p1-1] are the integer digits, t[p1+1 .. p2-1] the fraction digits
        Number(t, p0, p1, p2) ==
            LET nFrac == IF p2 > p1 THEN p2 - p1 - 1 ELSE 0
                mag   == DigitsValue(t, p0, p1) * Pow10(nFrac)
                         + (IF nFrac > 0 THEN DigitsValue(t, p1 + 1, p2) ELSE 0)
            IN IF (p1 - p0) + nFrac = 0 THEN NaN
               ELSE Norm(IF t[1] = "-" THEN 0 - mag ELSE mag, nFrac)
        Fraction(t, p0, p1) ==
            Number(t, p0, p1,
                   IF p1 <= Len(t) /\ t[p1] = "." THEN DigitRunEnd(t, p1 + 1) ELSE p1)
        Digits(t, p0) == Fraction(t, p0, DigitRunEnd(t, p0))
        Signed(t) == Digits(t, IF t # <<>> /\ t[1] \in {"-", "+"} THEN 2 ELSE 1)
    IN Signed(TrimStart(s))

\* ------------------------------------------------------ parseNumericValue

IsCurrencySymbol(ch) == ch \in {"$", "pound", "euro", "yen", "rupee", "R", "r"}

IsSeparator(ch) == ch = "," \/ IsSpace(ch)

IsParenthesis(ch) == ch \in {"(", ")"}

IsQuote(ch) == ch \in {"'", "dquote"}

IsNotNumericChar(ch) == ~(IsDigit(ch) \/ ch \in {".", "-"})

IsPercentSign(ch) == ch = "%"

Placeholders ==
    { <<>>, <<"-">>,
      <<"N","/","A">>, <<"n","/","a">>,
      <<"N","U","L","L">>, <<"n","u","l","l">>,
      <<"#","N","/","A">>,
      <<"T","B","C">>, <<"t","b","c">>,
      <<"T","B","A">>, <<"t","b","a">>,
      <<"P","O","A">>, <<"p","o","a">>,
      <<"C","A","L","L">>, <<"c","a","l","l">>}

\* A parser without the placeholder and null cases: Math.abs(parseFloat(value)) || 0.
parseNumericValueOrZero(value) ==
    LET OrZero(parsed) == IF isNaN(parsed) THEN NumCell(IntNum(0)) ELSE NumCell(NumAbs(parsed))
    IN OrZero(parseFloat(trim(value)))

\* parseNumericValue: the chain of replace calls that makes "cleaned" from
\* stringValue (currency symbols, separators, parentheses, quotes, then
\* everything that is not a digit, '.' or '-').
Cleaned(stringValue) ==
    RemoveChars(RemoveChars(RemoveChars(RemoveChars(RemoveChars(
        stringValue, IsCurrencySymbol), IsSeparator),
        IsParenthesis), IsQuote), IsNotNumericChar)

\* MarkupCalculationServiceImpl.parseNumericValue; the result is a number
\* cell or Null.
parseNumericValue(value) ==
    LET \* !isNaN(parsed) ? (parsed >= 0 ? parsed : Math.abs(parsed)) : null
        AbsOrNull(parsed) == IF ~isNaN(parsed) THEN NumCell(NumAbs(parsed)) ELSE Null
        \* !isNaN(parsed) ? parsed / 100 : null
        PercentOrNull(parsed) == IF ~isNaN(parsed) THEN NumCell(NumDiv100(parsed)) ELSE Null
        OfCleaned(stringValue, cleaned) ==
            IF cleaned = <<>> THEN Null
            ELSE IF "%" \in Range(stringValue)
                 THEN PercentOrNull(parseFloat(RemoveChars(cleaned, IsPercentSign)))
            ELSE AbsOrNull(parseFloat(cleaned))
        Parsed(stringValue, directParse) ==
            IF ~isNaN(directParse) THEN NumCell(NumAbs(directParse))
            ELSE OfCleaned(stringValue, Cleaned(stringValue))
        OfTrimmed(stringValue) ==
            IF stringValue \in Placeholders THEN Null
            ELSE Parsed(stringValue, parseFloat(stringValue))
    IN IF value = <<>> THEN Null ELSE OfTrimmed(trim(value))

\* ------------------------------------------------------------- decimal.js

\* x.plus(1)
DecimalPlus1(x) == Norm(x.c + Pow10(x.d), x.d)

\* x.mul(y)
DecimalMul(x, y) == Norm(x.c * y.c, x.d + y.d)

\* toDecimalPlaces cutting the extra digits off (ROUND_DOWN).
toDecimalPlacesTruncating(x, dp) ==
    IF x.d <= dp THEN x
    ELSE LET p == Pow10(x.d - dp)
             q == Abs(x.c) \div p
         IN Norm(IF x.c < 0 THEN 0 - q ELSE q, dp)

\* x.toDecimalPlaces(dp) under decimal.js's default rounding mode,
\* ROUND_HALF_UP: to the nearest neighbour, a tie away from zero.
toDecimalPlaces(x, dp) ==
    IF x.d <= dp THEN x
    ELSE LET p   == Pow10(x.d - dp)
             q   == Abs(x.c) \div p
             r   == Abs(x.c) % p
             mag == IF 2 * r >= p THEN q + 1 ELSE q
         IN Norm(IF x.c < 0 THEN 0 - mag ELSE mag, dp)

\* ------------------------------------------------- calculateSingleMarkup

True == <<"t","r","u","e">>
False == <<"f","a","l","s","e">>

\* String(costValue) for the cell kinds that are neither number nor string.
StringOfOther(cell) == IF cell.b THEN True ELSE False

\* decimal.js accepts as a number of decimal places an integer in 0..1e9
\* and throws a DecimalError on anything else.
IsValidDp(dp) == ~isNaN(dp) /\ dp.d = 0 /\ dp.c >= 0

\* MarkupCalculationServiceImpl.calculateSingleMarkup; the result is a
\* number cell or Null.
calculateSingleMarkup(cost, percentage, dp) ==
    LET MarkupOf(numericCost) ==
            IF isNaN(numericCost) \/ numericCost.c < 0 THEN Null
            ELSE IF numericCost.c = 0 THEN NumCell(IntNum(0))
            ELSE IF ~IsValidDp(dp) THEN Null
            ELSE IF isNaN(percentage) THEN NumCell(NaN)
            ELSE NumCell(toDecimalPlaces(
                     DecimalMul(numericCost, DecimalPlus1(NumDiv100(percentage))), dp.c))
        MarkupOfParsed(parsed) == IF parsed.k = "null" THEN Null ELSE MarkupOf(parsed.n)
    IN IF cost.k \in {"null", "undefined"} THEN Null
       ELSE IF cost.k = "number" THEN MarkupOf(cost.n)
       ELSE IF cost.k = "string" THEN MarkupOfParsed(parseNumericValue(cost.s))
       ELSE MarkupOfParsed(parseNumericValue(StringOfOther(cost)))

\* ------------------------------------------------- conversions of cells

RECURSIVE IntToStr(_)
IntToStr(n) ==
    IF n < 10 THEN <<DigitChars[n + 1]>>
    ELSE IntToStr(n \div 10) \o <<DigitChars[(n % 10) + 1]>>

\* The k low decimal digits of n, with leading zeros.
RECURSIVE FractionDigits(_, _)
FractionDigits(n, k) ==
    IF k <= 0 THEN <<>>
    ELSE FractionDigits(n \div 10, k - 1) \o <<DigitChars[(n % 10) + 1]>>

\* Number.prototype.toString (for magnitudes printed in positional notation).
NumToString(x) ==
    IF isNaN(x) THEN <<"N","a","N">>
    ELSE (IF x.c < 0 THEN <<"-">> ELSE <<>>)
         \o IntToStr(Abs(x.c) \div Pow10(x.d))
         \o (IF x.d > 0 THEN <<".">> \o FractionDigits(Abs(x.c) % Pow10(x.d), x.d) ELSE <<>>)

\* ToBoolean of a cell.
Truthy(cell) ==
    \/ cell.k = "string" /\ cell.s # <<>>
    \/ cell.k = "number" /\ ~isNaN(cell.n) /\ cell.n.c # 0
    \/ cell.k = "boolean" /\ cell.b

\* cell || ''
OrEmpty(cell) == IF Truthy(cell) THEN cell ELSE EmptyString

\* String(cell || '')
StringOrEmpty(cell) ==
    IF ~Truthy(cell) THEN <<>>
    ELSE IF cell.k = "string" THEN cell.s
    ELSE IF cell.k = "number" THEN NumToString(cell.n)
    ELSE True

\* a === b
StrictEquals(a, b) == a = b /\ ~(a.k = "number" /\ isNaN(a.n))

\* Array.prototype.findIndex: 0-based index of the first element with P, or -1.
FindIndex(arr, P(_)) ==
    LET hits == { i \in DOMAIN arr : P(arr[i]) }
    IN IF hits = {} THEN 0 - 1
       ELSE (CHOOSE i \in hits : \A j \in hits : i <= j) - 1

IncludesAny(s, subs) == \E sub \in subs : includes(s, sub)

\* ----------------------------------------------------- removeEmptyColumns

Max(S) == CHOOSE m \in S : \A x \in S : x <= m

maxColumns(data) == Max({ Len(data[r]) : r \in DOMAIN data })

\* cellValue !== null && cellValue !== undefined && cellValue !== ''
IsNonEmptyCell(cell) == ~(cell.k \in {"null", "undefined"}) /\ cell # EmptyString

ImportantHeaderWords ==
    { <<"p","r","i","c","e">>, <<"c","o","s","t">>, <<"u","n","i","t">>,
      <<"a","m","o","u","n","t">>, <<"v","a","l","u","e">>, <<"c","a","r","t","o","n">> }

hasData(data, colIndex) ==
    \E r \in DOMAIN data : IsNonEmptyCell(At(data[r], colIndex))

isImportantHeader(data, colIndex) ==
    IncludesAny(toLowerCase(StringOrEmpty(At(data[1], colIndex))), ImportantHeaderWords)

\* A pruner that looks for data below the header row only and knows no
\* important headers.
KeepColumnDataRowsOnly(data, colIndex) ==
    \E r \in DOMAIN data : r > 1 /\ IsNonEmptyCell(At(data[r], colIndex))

\* The test of removeEmptyColumns that keeps column colIndex.
KeepColumn(data, colIndex) == hasData(data, colIndex) \/ isImportantHeader(data, colIndex)

\* columnsToKeep of removeEmptyColumns: 0-based column indices, ascending.
columnsToKeep(data) ==
    SelectSeq([i \in 1..maxColumns(data) |-> i - 1], LAMBDA c : KeepColumn(data, c))

removeEmptyColumns(data) ==
    IF data = <<>> THEN data
    ELSE LET keep == columnsToKeep(data)
         IN [r \in DOMAIN data |-> [k \in DOMAIN keep |-> OrEmpty(At(data[r], keep[k]))]]

\* ---------------------------------------------------- findBestPriceColumn

priceKeywords ==
    << <<"u","n","i","t"," ","p","r","i","c","e">>,
       <<"p","r","i","c","e"," ","f","o","r"," ","c","a","r","t","o","n">>,
       <<"p","r","i","c","e"," ","f","o","r">>,
       <<"u","n","i","t"," ","c","o","s","t">>,
       <<"s","e","l","l","i","n","g"," ","p","r","i","c","e">>,
       <<"l","i","s","t"," ","p","r","i","c","e">>,
       <<"p","r","i","c","e">>,
       <<"c","o","s","t">>,
       <<"a","m","o","u","n","t">>,
       <<"v","a","l","u","e">> >>

ExclusionWords ==
    { <<"c","o","d","e">>, <<"d","e","s","c","r","i","p","t","i","o","n">>,
      <<"s","i","z","e">>, <<"c","o","l","o","u","r">>,
      <<"a","v","a","i","l","a","b","i","l","i","t","y">>,
      <<"e","f","f","e","c","t","i","v","e">>, <<"r","e","m","a","r","k">> }

\* The first loop of findBestPriceColumn from keyword k on: the index found
\* for the first keyword that some header contains, or -1.
RECURSIVE KeywordSearch(_, _)
KeywordSearch(hdrs, k) ==
    IF k > Len(priceKeywords) THEN 0 - 1
    ELSE LET index == FindIndex(hdrs, LAMBDA h :
                          includes(toLowerCase(StringOrEmpty(h)), toLowerCase(priceKeywords[k])))
         IN IF index >= 0 THEN index ELSE KeywordSearch(hdrs, k + 1)

\* A search that returns the leftmost header holding any of the keywords.
findBestPriceColumnLeftmost(hdrs) ==
    LET anyKeyword == FindIndex(hdrs, LAMBDA h :
                          IncludesAny(toLowerCase(StringOrEmpty(h)), Range(priceKeywords)))
    IN IF anyKeyword >= 0 THEN anyKeyword ELSE 0

findBestPriceColumn(hdrs) ==
    LET byKeyword   == KeywordSearch(hdrs, 1)
        notExcluded == FindIndex(hdrs, LAMBDA h :
                           ~IncludesAny(toLowerCase(StringOrEmpty(h)), ExclusionWords))
    IN IF byKeyword >= 0 THEN byKeyword
       ELSE IF notExcluded >= 0 THEN notExcluded
       ELSE 0

\* ------------------------------------------------------ adjustColumnIndex

PriceHeaderWords ==
    { <<"p","r","i","c","e">>, <<"c","o","s","t">>, <<"u","n","i","t">> }

\* An adjustment that leaves the index where it was before the pruning.
adjustColumnIndexUnadjusted(originalHeaders, cleanedHeaders, originalIndex) ==
    originalIndex

adjustColumnIndex(originalHeaders, cleanedHeaders, originalIndex) ==
    LET originalHeader == At(originalHeaders, originalIndex)
        newIndex       == FindIndex(cleanedHeaders, LAMBDA h : StrictEquals(h, originalHeader))
        headerStr      == toLowerCase(StringOrEmpty(At(cleanedHeaders, newIndex)))
        isPriceHeader  == IncludesAny(headerStr, PriceHeaderWords)
    IN IF originalIndex >= Len(originalHeaders) THEN findBestPriceColumn(cleanedHeaders)
       ELSE IF newIndex < 0 THEN findBestPriceColumn(cleanedHeaders)
       ELSE IF ~isPriceHeader THEN findBestPriceColumn(cleanedHeaders)
       ELSE newIndex

\* --------------------------------------------------- calculateMarkupColumns

Markup == <<"%"," ","M","a","r","k","u","p">>

\* Number.prototype.toFixed(1)
toFixed1(x) ==
    LET r == toDecimalPlaces(x, 1)
    IN (IF r.c < 0 THEN <<"-">> ELSE <<>>)
       \o IntToStr(Abs(r.c) \div Pow10(r.d))
       \o <<".">> \o FractionDigits(Abs(r.c) * Pow10(1 - r.d), 1)

generateMarkupHeader(percentage, currencySymbol) ==
    currencySymbol
    \o (IF percentage.d = 0 THEN NumToString(percentage) ELSE toFixed1(percentage))
    \o Markup

\* A validation of the sheet and the column index only.
validateInputsSheetOnly(sheet, costColumn, config) ==
    IF sheet = <<>> THEN "EMPTY_DATA"
    ELSE IF sheet[1] = <<>> THEN "INVALID_HEADERS"
    ELSE IF costColumn < 0 \/ costColumn >= Len(sheet[1]) THEN "INVALID_COST_COLUMN_INDEX"
    ELSE ""

\* The code of the error validateInputs reports, "" when the inputs are valid.
validateInputs(sheet, costColumn, config) ==
    IF sheet = <<>> THEN "EMPTY_DATA"
    ELSE IF sheet[1] = <<>> THEN "INVALID_HEADERS"
    ELSE IF costColumn < 0 \/ costColumn >= Len(sheet[1]) THEN "INVALID_COST_COLUMN_INDEX"
    ELSE IF config.percentages = <<>> THEN "INVALID_MARKUP_PERCENTAGES"
    ELSE IF \E i \in DOMAIN config.percentages :
                isNaN(config.percentages[i]) \/ config.percentages[i].c < 0
         THEN "INVALID_MARKUP_PERCENTAGE"
    ELSE IF ~isNaN(config.decimalPlaces)
            /\ (config.decimalPlaces.c < 0 \/ NumLess(IntNum(10), config.decimalPlaces))
         THEN "INVALID_DECIMAL_PLACES"
    ELSE ""

isValidCostValue(value) ==
    LET IsCost(parsed) == parsed.k # "null" /\ parsed.n.c >= 0
    IN IF value.k = "number" THEN ~isNaN(value.n) /\ value.n.c >= 0
       ELSE IF value.k = "string" THEN IsCost(parseNumericValue(value.s))
       ELSE FALSE

\* A validation that asks for one valid cost value, whatever the number of rows.
validateCostColumnAnyValid(rws, costColumn) ==
    \E r \in DOMAIN rws :
        Len(rws[r]) > costColumn /\ isValidCostValue(At(rws[r], costColumn))

\* validateCostColumn(...).isValid
validateCostColumn(rws, costColumn) ==
    LET Valid(counted) ==
            /\ counted # {}
            \* validRatio >= 0.005
            /\ Cardinality({ r \in counted : isValidCostValue(At(rws[r], costColumn)) }) * 1000
                   >= 5 * Cardinality(counted)
    IN /\ rws # <<>>
       /\ Valid({ r \in DOMAIN rws : Len(rws[r]) > costColumn })

Failure(code) == [success |-> FALSE, code |-> code, data |-> <<>>]

Success(result) == [success |-> TRUE, code |-> "", data |-> result]

\* The ProcessingResult of a call that has not been made yet.
NoResult == Failure("NOT_CALLED")

calculateMarkupColumns(sheet, costColumn, config) ==
    LET markupColumns == [i \in DOMAIN config.percentages |->
                            [percentage  |-> config.percentages[i],
                             columnIndex |-> Len(sheet[1]) + i - 1,
                             header      |-> generateMarkupHeader(config.percentages[i],
                                                                  config.currencySymbol)]]
        Calculated(invalid) ==
            IF invalid # "" THEN Failure(invalid)
            ELSE IF ~validateCostColumn(Tail(sheet), costColumn)
                 THEN Failure("INVALID_COST_COLUMN")
            ELSE Success(markupColumns)
    IN Calculated(validateInputs(sheet, costColumn, config))

\* -------------------------------------------------- applyMarkupCalculations

\* adjustedCostColumnIndex of applyMarkupCalculations.
AdjustedIndex(sheet, costColumn) ==
    adjustColumnIndex(sheet[1], removeEmptyColumns(sheet)[1], costColumn)

\* markupPrice !== null ? markupPrice : ''
NullToEmpty(cell) == IF cell.k = "null" THEN EmptyString ELSE cell

applyMarkupCalculations(sheet, costColumn, markupColumns, config) ==
    LET NewRow(row, adjusted) ==
            row \o [m \in DOMAIN markupColumns |->
                      NullToEmpty(calculateSingleMarkup(At(row, adjusted),
                                      markupColumns[m].percentage, config.decimalPlaces))]
        NewHeaders(cleanedHeaders) ==
            cleanedHeaders \o [m \in DOMAIN markupColumns |-> StrCell(markupColumns[m].header)]
        NewData(cleanedData, adjusted) ==
            [r \in DOMAIN cleanedData |->
                IF r = 1 THEN NewHeaders(cleanedData[r]) ELSE NewRow(cleanedData[r], adjusted)]
    IN IF sheet = <<>> THEN sheet
       ELSE NewData(removeEmptyColumns(sheet), AdjustedIndex(sheet, costColumn))

\* --------------------------------------------------------------- rationals

RECURSIVE Gcd(_, _)
Gcd(a, b) == IF b = 0 THEN a ELSE Gcd(b, a % b)

\* num / den in lowest terms, den > 0.
Rat(num, den) ==
    LET g == Gcd(Abs(num), den)
    IN [num |-> num \div g, den |-> den \div g]

RatAdd(x, y) == Rat(x.num * y.den + y.num * x.den, x.den * y.den)

RatMul(x, y) == Rat(x.num * y.num, x.den * y.den)

RatLess(x, y) == x.num * y.den < y.num * x.den

RatLeq(x, y) == x.num * y.den <= y.num * x.den

RatMin(x, y) == IF RatLess(y, x) THEN y ELSE x

RatMax(x, y) == IF RatLess(x, y) THEN y ELSE x

RatZero == Rat(0, 1)

\* ------------------------------------------------------- detection: headers

COST_PRICE_KEYWORDS ==
    << <<"c","o","s","t">>,
       <<"p","r","i","c","e">>,
       <<"w","h","o","l","e","s","a","l","e">>,
       <<"b","u","y">>,
       <<"s","u","p","p","l","i","e","r">>,
       <<"p","u","r","c","h","a","s","e">>,
       <<"u","n","i","t"," ","c","o","s","t">>,
       <<"b","a","s","e"," ","p","r","i","c","e">>,
       <<"p","r","i","c","e"," ","f","o","r"," ","c","a","r","t","o","n"," ","q","t","y">>,
       <<"p","r","i","c","e"," ","f","o","r"," ","c","a","r","t","o","n">>,
       <<"c","a","r","t","o","n"," ","p","r","i","c","e">>,
       <<"p","r","i","c","e"," ","p","e","r"," ","c","a","r","t","o","n">>,
       <<"u","n","i","t"," ","p","r","i","c","e">>,
       <<"s","e","l","l","i","n","g"," ","p","r","i","c","e">>,
       <<"l","i","s","t"," ","p","r","i","c","e">>,
       <<"c","a","r","t","o","n">>,
       <<"q","t","y">>,
       <<"a","m","o","u","n","t">>,
       <<"v","a","l","u","e">>,
       <<"r","a","t","e">> >>

\* defaultOptions of CostPriceDetectionServiceImpl.
defaultOptions ==
    [minConfidence |-> Rat(3, 10), requiredDataRows |-> 5, customPriceKeywords |-> <<>>]

Result(columnIndex, confidence, method, alternatives) ==
    [columnIndex |-> columnIndex, confidence |-> confidence,
     detectionMethod |-> method, alternativeColumns |-> alternatives]

createLowConfidenceResult(columnIndex, method) == Result(columnIndex, RatZero, method, <<>>)

allKeywords(opts) == COST_PRICE_KEYWORDS \o opts.customPriceKeywords

\* A matcher that compares the header as it is written.
HeaderEqualsKeywordCaseSensitive(header, opts) ==
    LET h  == trim(header)
        ks == allKeywords(opts)
    IN \E k \in DOMAIN ks : h = ks[k]

\* The test of detectByHeaderExactMatch on one header.
HeaderEqualsKeyword(header, opts) ==
    LET h  == trim(toLowerCase(header))
        ks == allKeywords(opts)
    IN \E k \in DOMAIN ks : h = toLowerCase(ks[k])

detectByHeaderExactMatch(hdrs, opts) ==
    LET i == FindIndex(hdrs, LAMBDA h : HeaderEqualsKeyword(h, opts))
    IN IF i >= 0 THEN Result(i, Rat(95, 100), "header_exact_match", <<>>)
       ELSE createLowConfidenceResult(0 - 1, "header_exact_match")

\* The larger of a set of rationals, 0 when it is empty.
RatMaxOf(S) == IF S = {} THEN RatZero ELSE CHOOSE m \in S : \A x \in S : RatLeq(x, m)

\* score of detectByHeaderPartialMatch for one header.  An empty header
\* contains no keyword but the empty one, whose score 0/0 is NaN and is
\* not counted either.
PartialScore(header, opts) ==
    LET h  == trim(toLowerCase(header))
        ks == allKeywords(opts)
        position(k) == indexOf(h, toLowerCase(ks[k]))
    IN IF h = <<>> THEN RatZero
       ELSE RatMaxOf({ RatAdd(Rat(Len(ks[k]), Len(h)),
                              IF position(k) = 0 THEN Rat(2, 10) ELSE RatZero) :
                       k \in { j \in DOMAIN ks : includes(h, toLowerCase(ks[j])) } })

\* Array.prototype.sort((a, b) => b.score - a.score): descending and stable.
RECURSIVE InsertByScore(_, _)
InsertByScore(sorted, x) ==
    IF sorted = <<>> THEN <<x>>
    ELSE IF RatLess(Head(sorted).score, x.score) THEN <<x>> \o sorted
    ELSE <<Head(sorted)>> \o InsertByScore(Tail(sorted), x)

RECURSIVE SortByScore(_)
SortByScore(list) ==
    IF list = <<>> THEN <<>>
    ELSE InsertByScore(SortByScore(SubSeq(list, 1, Len(list) - 1)), list[Len(list)])

\* slice(1, 3).map(m => m.index)
Alternatives(sorted) ==
    [i \in 1..(IF Len(sorted) - 1 < 2 THEN Len(sorted) - 1 ELSE 2) |-> sorted[i + 1].index]

detectByHeaderPartialMatch(hdrs, opts) ==
    LET scored  == [i \in DOMAIN hdrs |-> [index |-> i - 1, score |-> PartialScore(hdrs[i], opts)]]
        matches == SortByScore(SelectSeq(scored, LAMBDA m : RatLess(RatZero, m.score)))
        baseConfidence     == RatMin(RatMul(matches[1].score, Rat(8, 10)), Rat(85, 100))
        competitionPenalty == IF Len(matches) > 1 THEN Rat(0 - 1, 10) ELSE RatZero
        confidence         == RatMax(RatAdd(baseConfidence, competitionPenalty), Rat(1, 10))
    IN IF matches = <<>> THEN createLowConfidenceResult(0 - 1, "header_partial_match")
       ELSE Result(matches[1].index, confidence, "header_partial_match", Alternatives(matches))

\* ---------------------------------------------------- detection: the data

\* rows.map(row => row[colIndex])
columnData(rws, colIndex) == [r \in DOMAIN rws |-> At(rws[r], colIndex)]

Count(seq, P(_)) == Cardinality({ i \in DOMAIN seq : P(seq[i]) })

NumMin(S) == CHOOSE m \in S : \A x \in S : NumLeq(m, x)

NumMax(S) == CHOOSE m \in S : \A x \in S : NumLeq(x, m)

\* hasReasonablePriceRange: min >= 0.01, max <= 1000000 and
\* max / Math.max(min, 0.01) <= 10000.
hasReasonablePriceRange(values) ==
    LET Reasonable(min, max) ==
            /\ NumLeq(Dec(1, 2), min)
            /\ NumLeq(max, IntNum(1000000))
            /\ NumLeq(max, DecimalMul(IntNum(10000),
                                      IF NumLess(min, Dec(1, 2)) THEN Dec(1, 2) ELSE min))
    IN values # {} /\ Reasonable(NumMin(values), NumMax(values))

\* hasConsistentDecimalPrecision: at least 80% of the values print with at
\* most 3 digits after the point.
hasConsistentDecimalPrecision(values) ==
    /\ values # <<>>
    /\ 10 * Count(values, LAMBDA v : v.d >= 0 /\ v.d <= 3) >= 8 * Len(values)

IsNumberCell(value) == value.k = "number" /\ ~isNaN(value.n)

\* analyzeNumericColumn: [isNumeric, score]
analyzeNumericColumn(column) ==
    LET Score(numericRatio, positiveValues, allPositive) ==
            RatAdd(RatAdd(RatAdd(RatMul(numericRatio, Rat(4, 10)),
                IF hasReasonablePriceRange(Range(positiveValues)) THEN Rat(3, 10) ELSE RatZero),
                IF hasConsistentDecimalPrecision(positiveValues) THEN Rat(2, 10) ELSE RatZero),
                IF allPositive THEN Rat(1, 10) ELSE RatZero)
        Scored(numericRatio, nonNullValues, positiveValues) ==
            IF RatLess(numericRatio, Rat(5, 1000)) THEN [isNumeric |-> FALSE, score |-> RatZero]
            ELSE [isNumeric |-> TRUE,
                  score |-> RatMin(Score(numericRatio, positiveValues,
                                         /\ Len(positiveValues) = Len(nonNullValues)
                                         /\ Len(positiveValues) > 0),
                                   Rat(1, 1))]
        Analysed(nonNullValues, totalValues) ==
            IF nonNullValues = <<>> THEN [isNumeric |-> FALSE, score |-> RatZero]
            ELSE Scored(Rat(Len(nonNullValues), IF totalValues > 1 THEN totalValues ELSE 1),
                        nonNullValues,
                        SelectSeq(nonNullValues, LAMBDA v : v.c > 0))
        Numbers(cells) == [i \in DOMAIN cells |-> cells[i].n]
    IN Analysed(Numbers(SelectSeq(column, IsNumberCell)),
                Count(column, LAMBDA v : v.k # "null"))

detectByDataPatterns(hdrs, rws) ==
    LET headerBonus(header) ==
            IF \E k \in DOMAIN COST_PRICE_KEYWORDS :
                   includes(toLowerCase(header), toLowerCase(COST_PRICE_KEYWORDS[k]))
            THEN Rat(3, 10) ELSE RatZero
        Pushed(c) == c.analysis.isNumeric /\ RatLess(Rat(5, 10), c.analysis.score)
        Scored(pushed) ==
            [j \in DOMAIN pushed |->
                [index |-> pushed[j].index,
                 score |-> RatAdd(pushed[j].analysis.score, headerBonus(hdrs[pushed[j].index + 1]))]]
        Best(numericColumns) ==
            IF numericColumns = <<>> THEN createLowConfidenceResult(0 - 1, "data_pattern_match")
            ELSE Result(numericColumns[1].index,
                        RatMin(RatMul(numericColumns[1].score, Rat(75, 100)), Rat(8, 10)),
                        "data_pattern_match", Alternatives(numericColumns))
    IN Best(SortByScore(Scored(SelectSeq(
           [i \in DOMAIN hdrs |->
               [index |-> i - 1, analysis |-> analyzeNumericColumn(columnData(rws, i - 1))]],
           Pushed))))

commonPricePositions == <<1, 2, 3, 4, 5>>

\* The test of detectByPositionHeuristics on the column at a position.
IsNumericPosition(rws, position) ==
    LET Hit(analysis) == analysis.isNumeric /\ RatLess(Rat(1, 100), analysis.score)
    IN Hit(analyzeNumericColumn(columnData(rws, position)))

\* The result of detectByPositionHeuristics for commonPricePositions[k + 1], -1 for none.
PositionResult(k) ==
    IF k >= 0 THEN Result(commonPricePositions[k + 1], Rat(4, 10), "position_heuristic", <<>>)
    ELSE createLowConfidenceResult(0 - 1, "position_heuristic")

\* A position heuristic that does not compare the position with headers.length.
detectByPositionHeuristicsUnbounded(hdrs, rws) ==
    PositionResult(FindIndex(commonPricePositions,
                             LAMBDA position : IsNumericPosition(rws, position)))

detectByPositionHeuristics(hdrs, rws) ==
    PositionResult(FindIndex(commonPricePositions,
                             LAMBDA position : /\ position < Len(hdrs)
                                               /\ IsNumericPosition(rws, position)))

\* A loop that keeps the last column of the highest score.
RECURSIVE ForceLoopLastWins(_, _, _, _)
ForceLoopLastWins(hdrs, rws, i, best) ==
    LET Better(analysis) ==
            IF analysis.isNumeric /\ RatLeq(best.bestScore, analysis.score)
            THEN [bestColumn |-> i, bestScore |-> analysis.score]
            ELSE best
    IN IF i >= Len(hdrs) THEN best
       ELSE ForceLoopLastWins(hdrs, rws, i + 1, Better(analyzeNumericColumn(columnData(rws, i))))

\* The loop of forceDetectBestNumericColumn from column i on: [bestColumn, bestScore].
RECURSIVE ForceLoop(_, _, _, _)
ForceLoop(hdrs, rws, i, best) ==
    LET Better(analysis) ==
            IF analysis.isNumeric /\ RatLess(best.bestScore, analysis.score)
            THEN [bestColumn |-> i, bestScore |-> analysis.score]
            ELSE best
    IN IF i >= Len(hdrs) THEN best
       ELSE ForceLoop(hdrs, rws, i + 1, Better(analyzeNumericColumn(columnData(rws, i))))

\* The result no strategy has produced (null).
NoDetection == Result(0 - 1, RatZero, "null", <<>>)

forceDetectBestNumericColumn(hdrs, rws) ==
    LET Forced(best) ==
            IF best.bestColumn >= 0
            THEN Result(best.bestColumn, RatMin(RatMul(best.bestScore, Rat(5, 10)), Rat(4, 10)),
                        "forced_numeric", <<>>)
            ELSE NoDetection
    IN Forced(ForceLoop(hdrs, rws, 0, [bestColumn |-> 0 - 1, bestScore |-> RatZero]))

\* ------------------------------------------------- detectCostPriceColumn

\* Whether a result clears the threshold of the first pass.
MeetsMinConfidence(result, opts) == RatLeq(opts.minConfidence, result.confidence)

\* Whether a result clears the threshold of the fallback pass.
MeetsFallbackThreshold(result) == RatLess(Rat(1, 10), result.confidence)

\* The loops over the strategies' results: the first of greatest confidence
\* among those that qualify, NoDetection when none does.
RECURSIVE KeepBest(_, _, _)
KeepBest(results, Qualifies(_), bestResult) ==
    IF results = <<>> THEN bestResult
    ELSE KeepBest(Tail(results), Qualifies,
             IF Qualifies(Head(results))
                /\ (bestResult = NoDetection
                    \/ RatLess(bestResult.confidence, Head(results).confidence))
             THEN Head(results) ELSE bestResult)

\* A check of the headers alone.
PreconditionsHoldHeadersOnly(hdrs, rws, opts) == hdrs # <<>>

PreconditionsHold(hdrs, rws, opts) == hdrs # <<>> /\ Len(rws) >= opts.requiredDataRows

\* What the four strategies return, in the order of the strategies array.
StrategyResults(hdrs, rws, opts) ==
    << detectByHeaderExactMatch(hdrs, opts),
       detectByHeaderPartialMatch(hdrs, opts),
       detectByDataPatterns(hdrs, rws),
       detectByPositionHeuristics(hdrs, rws) >>

\* A first pass that keeps the first result that qualifies.
FirstPassFirstQualifying(results, opts) ==
    IF \E i \in DOMAIN results : MeetsMinConfidence(results[i], opts)
    THEN results[CHOOSE i \in DOMAIN results :
                     /\ MeetsMinConfidence(results[i], opts)
                     /\ \A j \in 1..(i - 1) : ~MeetsMinConfidence(results[j], opts)]
    ELSE NoDetection

\* bestResult after the loop over the four strategies.
FirstPass(results, opts) ==
    KeepBest(results, LAMBDA r : MeetsMinConfidence(r, opts), NoDetection)

\* bestResult after the loop over the fallback strategies: the last three
\* strategies called again, which return what they returned before.
FallbackPass(results) == KeepBest(Tail(results), MeetsFallbackThreshold, NoDetection)

detectCostPriceColumn(hdrs, rws, opts) ==
    LET OrLowConfidence(bestResult) ==
            IF bestResult # NoDetection THEN bestResult
            ELSE createLowConfidenceResult(0 - 1, "header_exact_match")
        OrForced(bestResult) ==
            IF bestResult # NoDetection THEN bestResult
            ELSE OrLowConfidence(forceDetectBestNumericColumn(hdrs, rws))
        OrFallback(bestResult, results) ==
            IF bestResult # NoDetection THEN bestResult
            ELSE OrForced(FallbackPass(results))
        Detect(results) == OrFallback(FirstPass(results, opts), results)
    IN IF ~PreconditionsHold(hdrs, rws, opts)
       THEN createLowConfidenceResult(0 - 1, "header_exact_match")
       ELSE Detect(StrategyResults(hdrs, rws, opts))

FourStrategies ==
    <<"detectByHeaderExactMatch", "detectByHeaderPartialMatch",
      "detectByDataPatterns", "detectByPositionHeuristics">>

\* The strategy methods detectCostPriceColumn calls, in the order of the calls.
StrategiesCalled(hdrs, rws, opts) ==
    LET Calls(results) ==
            IF FirstPass(results, opts) # NoDetection THEN FourStrategies
            ELSE IF FallbackPass(results) # NoDetection
                 THEN FourStrategies \o Tail(FourStrategies)
            ELSE FourStrategies \o Tail(FourStrategies) \o <<"forceDetectBestNumericColumn">>
    IN IF ~PreconditionsHold(hdrs, rws, opts) THEN <<>>
       ELSE Calls(StrategyResults(hdrs, rws, opts))

\* ------------------------------------------------------------ sample data

TBC == <<"T","B","C">>

CostValueSamples ==
    { NumCell(IntNum(0)), NumCell(Dec(5, 3)), NumCell(Dec(5, 2)), NumCell(Dec(1005, 3)),
      NumCell(Dec(2675, 3)), NumCell(IntNum(10)), NumCell(IntNum(20)),
      NumCell(Dec(1999, 2)), NumCell(Dec(200005, 3)), NumCell(IntNum(0 - 5)),
      NumCell(NaN), Null, Undefined, BoolCell(TRUE), EmptyString,
      StrCell(TBC), StrCell(<<"1","2",".","5","0">>), StrCell(<<"-","5">>),
      StrCell(<<"$","1",",","2","3","4",".","5","0">>), StrCell(<<"1","5","%">>) }

PercentageSamples ==
    { IntNum(0), IntNum(5), IntNum(10), Dec(125, 1), IntNum(15), IntNum(20), IntNum(30) }

DecimalPlacesSamples == { IntNum(0), IntNum(2), IntNum(3) }

Item == StrCell(<<"I","t","e","m">>)
Cost == StrCell(<<"C","o","s","t">>)
Qty == StrCell(<<"Q","t","y">>)
CostPrice == StrCell(<<"C","o","s","t"," ","P","r","i","c","e">>)
UnitPrice == StrCell(<<"U","n","i","t"," ","P","r","i","c","e">>)
Price == StrCell(<<"P","r","i","c","e">>)
Notes == StrCell(<<"N","o","t","e","s">>)
Code == StrCell(<<"C","o","d","e">>)
Amount == StrCell(<<"A","m","o","u","n","t">>)
NetCost == StrCell(<<"N","e","t"," ","C","o","s","t">>)
Remarks == StrCell(<<"R","e","m","a","r","k","s"," ","o","n"," ","f","r","e","i","g","h","t"," ",
                     "a","n","d"," ","c","o","s","t"," ","o","f"," ","g","o","o","d","s">>)

HeaderRowSamples ==
    { <<Item, Cost, Qty>>,
      <<Item, CostPrice, Notes>>,
      <<Item, Qty, Price>>,
      <<Item, UnitPrice, UnitPrice>>,
      <<Item, Null, Cost>>,
      <<Code, Amount, Notes>>,
      <<NumCell(IntNum(0)), Cost, BoolCell(FALSE)>>,
      <<Item, Cost>>,
      <<Cost, Null, CostPrice>>,
      <<>> }

DataRowSamples ==
    { <<StrCell(<<"A">>), NumCell(IntNum(10)), NumCell(IntNum(5))>>,
      <<StrCell(<<"B">>), NumCell(IntNum(20)), NumCell(IntNum(3))>>,
      <<StrCell(<<"C">>), NumCell(IntNum(0)), NumCell(IntNum(1))>>,
      <<StrCell(<<"D">>), StrCell(TBC), BoolCell(FALSE)>>,
      <<StrCell(<<"E">>), Null, NumCell(Dec(125, 1))>>,
      <<StrCell(<<"F">>), EmptyString, StrCell(<<"1","2",".","5","0">>)>>,
      <<StrCell(<<"G">>)>>,
      <<NumCell(IntNum(7)), Null, Null>> }

SeqsUpTo(S, n) == UNION { [1..k -> S] : k \in 0..n }

ScenarioConfig ==
    [percentages |-> <<IntNum(10), IntNum(20)>>, decimalPlaces |-> IntNum(2),
     currencySymbol |-> <<>>]

DEFAULT_MARKUP_PERCENTAGES == <<IntNum(5), IntNum(10), IntNum(15), IntNum(20), IntNum(30)>>

\* markupConfig of the store's initial state.
StoreConfig ==
    [percentages |-> DEFAULT_MARKUP_PERCENTAGES, decimalPlaces |-> IntNum(2),
     currencySymbol |-> <<"R">>]

ConfigSamples == { ScenarioConfig, StoreConfig }

RowA == <<StrCell(<<"A">>), NumCell(IntNum(10)), NumCell(IntNum(5))>>
RowB == <<StrCell(<<"B">>), NumCell(IntNum(20)), NumCell(IntNum(3))>>
RowZ == <<NumCell(IntNum(0)), StrCell(TBC), Null>>

\* A row whose amounts are written as text, and a row of zero amounts.
RowT == <<StrCell(<<"T">>), StrCell(<<"$","1","2",".","5","0">>), StrCell(<<"1","2",".","5","0">>)>>
RowN == <<StrCell(<<"N">>), NumCell(IntNum(0)), NumCell(IntNum(0))>>

\* Rows of eight cells whose amounts are in the last two columns.
RowV == <<StrCell(<<"V">>), Null, Null, Null, Null, Null, StrCell(TBC), NumCell(IntNum(0))>>
RowW == <<StrCell(<<"W">>), Null, Null, Null, Null, Null, NumCell(IntNum(0)), NumCell(IntNum(0))>>

RECURSIVE Repeat(_, _)
Repeat(row, n) == IF n <= 0 THEN <<>> ELSE <<row>> \o Repeat(row, n - 1)

\* The data rows of the sheets handed to detection: at most n rows, a rows
\* like RowA, then b like RowB, then z like RowZ; or rows like RowT only, or
\* rows like RowN only, or rows like RowV then rows like RowW.
DetectRowsSamples(n) ==
    { Repeat(RowA, abz[1]) \o Repeat(RowB, abz[2]) \o Repeat(RowZ, abz[3]) :
        abz \in { x \in (0..n) \X (0..n) \X (0..n) : x[1] + x[2] + x[3] <= n } }
    \cup { Repeat(RowT, k) : k \in 1..n }
    \cup { Repeat(RowN, k) : k \in 1..n }
    \cup { Repeat(RowV, vw[1]) \o Repeat(RowW, vw[2]) :
               vw \in { x \in (0..n) \X (1..n) : x[1] + x[2] <= n } }

DetectHeaderSamples ==
    { <<Item, Cost, Qty>>,
      <<Item, Qty, Price>>,
      <<Item, CostPrice>>,
      <<Code, Notes, StrCell(<<" ","C","O","S","T"," ">>)>>,
      <<Code, Notes, Notes>>,
      <<Item, NetCost>>,
      <<Code, Remarks>>,
      <<Code, Notes, Notes, Notes, Notes, Notes, Notes, Notes>>,
      <<Notes>>,
      <<>> }

OptionsSamples ==
    { defaultOptions,
      [defaultOptions EXCEPT !.requiredDataRows = 2],
      [defaultOptions EXCEPT !.requiredDataRows = 2, !.minConfidence = Rat(96, 100)],
      [defaultOptions EXCEPT !.requiredDataRows = 0, !.minConfidence = RatZero],
      [defaultOptions EXCEPT !.requiredDataRows = 2,
                             !.customPriceKeywords = << <<"I","T","E","M">> >>] }

\* ------------------------------------------------------------ idle parts

\* No call of calculateSingleMarkup is being observed.
MarkupIdle ==
    /\ costValue = Undefined
    /\ markupPercentage = IntNum(0)
    /\ decimalPlaces = IntNum(0)
    /\ markupPrice = Undefined
    /\ calls = 0

\* No sheet is being processed.
SheetIdle ==
    /\ originalData = <<>>
    /\ costColumnIndex = 0 - 1
    /\ markupConfig = [percentages |-> <<>>, decimalPlaces |-> IntNum(2), currencySymbol |-> <<>>]
    /\ markupResult = NoResult
    /\ dataWithMarkup = <<>>
    /\ keptColumns = <<>>
    /\ adjustedCostColumnIndex = 0 - 1
    /\ status = "idle"

\* No detection has been asked for.
DetectIdle ==
    /\ options = defaultOptions
    /\ detection = NoDetection
    /\ strategiesRun = <<>>

\* findBestPriceColumn is not being observed.
ReindexIdle ==
    /\ priceHeaders = <<>>
    /\ bestPriceColumn = 0 - 2

\* No export has been asked for.
ExportIdle ==
    /\ exportVariant = "services"
    /\ pricelists = <<>>
    /\ exportResult = [success |-> FALSE, code |-> "NOT_CALLED", sheets |-> <<>>]

\* The store is not being observed.
StoreIdle ==
    /\ files = <<>>
    /\ nextId = 1
    /\ timers = EmptyBag
    /\ reading = EmptyBag
    /\ globalProgress = 0

\* No text is being parsed.
ParseIdle ==
    /\ parseArgument = <<>>
    /\ parseReturn = Undefined

\* No file is being read.
FileIdle ==
    /\ rawData = <<>>
    /\ headerRowIndex = 0 - 1
    /\ parseFileResult = "idle"

\* ------------------------------------------- calls of calculateSingleMarkup

InitMarkup ==
    /\ costValue \in CostValueSamples
    /\ markupPercentage \in PercentageSamples
    /\ decimalPlaces \in DecimalPlacesSamples
    /\ markupPrice = Undefined
    /\ calls = 0
    /\ SheetIdle
    /\ DetectIdle
    /\ ParseIdle
    /\ FileIdle
    /\ ReindexIdle
    /\ ExportIdle
    /\ StoreIdle

CallSingleMarkup ==
    /\ calls < MaxCalls
    /\ markupPrice' = calculateSingleMarkup(costValue, markupPercentage, decimalPlaces)
    /\ calls' = calls + 1
    /\ UNCHANGED <<costValue, markupPercentage, decimalPlaces, sheetVars, detectVars,
                   parseVars, fileVars, reindexVars, exportVars, storeVars>>

NextMarkup == CallSingleMarkup

SpecMarkup == InitMarkup /\ [][NextMarkup]_vars

\* ------------------------------------------- calls of the markup service

InitApply ==
    /\ MarkupIdle
    /\ DetectIdle
    /\ ParseIdle
    /\ FileIdle
    /\ \E hdr \in HeaderRowSamples, rws \in SeqsUpTo(DataRowSamples, MaxDataRows) :
           originalData = <<hdr>> \o rws
    /\ costColumnIndex \in (0 - 1)..3
    /\ markupConfig \in ConfigSamples
    /\ markupResult = NoResult
    /\ dataWithMarkup = <<>>
    /\ keptColumns = <<>>
    /\ adjustedCostColumnIndex = 0 - 1
    /\ status = "calculating"
    /\ ReindexIdle
    /\ ExportIdle
    /\ StoreIdle

CalculateMarkupColumns ==
    /\ status = "calculating"
    /\ markupResult = NoResult
    /\ markupResult' = calculateMarkupColumns(originalData, costColumnIndex, markupConfig)
    /\ status' = IF markupResult'.success THEN "calculating" ELSE "error"
    /\ UNCHANGED <<originalData, costColumnIndex, markupConfig, dataWithMarkup, keptColumns,
                   adjustedCostColumnIndex, markupVars, detectVars, parseVars, fileVars, reindexVars, exportVars, storeVars>>

ApplyMarkupCalculations ==
    /\ status = "calculating"
    /\ markupResult.success
    /\ dataWithMarkup' = applyMarkupCalculations(originalData, costColumnIndex,
                                                 markupResult.data, markupConfig)
    /\ keptColumns' = columnsToKeep(originalData)
    /\ adjustedCostColumnIndex' = AdjustedIndex(originalData, costColumnIndex)
    /\ status' = "completed"
    /\ UNCHANGED <<originalData, costColumnIndex, markupConfig, markupResult, markupVars,
                   detectVars, parseVars, fileVars, reindexVars, exportVars, storeVars>>

NextApply == CalculateMarkupColumns \/ ApplyMarkupCalculations

SpecApply == InitApply /\ [][NextApply]_vars

\* ---------------------------- detection, then the markup service, on a sheet

\* headers.map(h => String(h || ''))
stringHeaders(sheet) == [i \in DOMAIN sheet[1] |-> StringOrEmpty(sheet[1][i])]

\* originalData.slice(1)
dataRows(sheet) == Tail(sheet)

InitPipeline ==
    /\ MarkupIdle
    /\ ParseIdle
    /\ FileIdle
    /\ \E hdr \in DetectHeaderSamples, rws \in DetectRowsSamples(MaxDetectRows) :
           originalData = <<hdr>> \o rws
    /\ options \in OptionsSamples
    /\ markupConfig \in ConfigSamples
    /\ costColumnIndex = 0 - 1
    /\ detection = NoDetection
    /\ strategiesRun = <<>>
    /\ markupResult = NoResult
    /\ dataWithMarkup = <<>>
    /\ keptColumns = <<>>
    /\ adjustedCostColumnIndex = 0 - 1
    /\ status = "detecting"
    /\ ReindexIdle
    /\ ExportIdle
    /\ StoreIdle

DetectCostPriceColumn ==
    /\ status = "detecting"
    /\ detection' = detectCostPriceColumn(stringHeaders(originalData), dataRows(originalData),
                                          options)
    /\ strategiesRun' = StrategiesCalled(stringHeaders(originalData), dataRows(originalData),
                                         options)
    /\ costColumnIndex' = detection'.columnIndex
    /\ status' = "calculating"
    /\ UNCHANGED <<originalData, markupConfig, markupResult, dataWithMarkup, keptColumns,
                   adjustedCostColumnIndex, options, markupVars, parseVars, fileVars, reindexVars, exportVars, storeVars>>

NextPipeline == DetectCostPriceColumn \/ CalculateMarkupColumns \/ ApplyMarkupCalculations

SpecPipeline == InitPipeline /\ [][NextPipeline]_vars

\* ------------------------------------------------------------------- C1

\* C1: for a numeric cost C > 0, a percentage P >= 0 and decimalPlaces = 2,
\* every call of calculateSingleMarkup (the first and each repetition)
\* returns the number with at most 2 decimals nearest to C * (1 + P/100),
\* a tie going up: with r in cents, r - 1/2 <= 100 * C * (1 + P/100) < r + 1/2.
C1_MarkupIsRoundedProduct ==
    ( /\ calls > 0
      /\ costValue.k = "number" /\ ~isNaN(costValue.n) /\ costValue.n.c > 0
      /\ markupPercentage.c >= 0 /\ ~isNaN(markupPercentage)
      /\ decimalPlaces = IntNum(2) )
    => /\ markupPrice.k = "number"
       /\ ~isNaN(markupPrice.n)
       /\ markupPrice.n.d <= 2
       /\ LET cents == markupPrice.n.c * Pow10(2 - markupPrice.n.d)
              \* 100 * C * (1 + P/100) = numer / denom
              numer == costValue.n.c * (markupPercentage.c + 100 * Pow10(markupPercentage.d))
              denom == Pow10(costValue.n.d) * Pow10(markupPercentage.d)
          IN /\ (2 * cents - 1) * denom <= 2 * numer
             /\ 2 * numer < (2 * cents + 1) * denom

\* 0.05 * 1.10 = 0.055, a tie, returned as 0.06 by the repeated call too.
C1_Witness ==
    /\ calls = 2
    /\ costValue = NumCell(Dec(5, 2))
    /\ markupPercentage = IntNum(10)
    /\ decimalPlaces = IntNum(2)
    /\ markupPrice = NumCell(Dec(6, 2))

\* ------------------------------------------------------------- C2 .. C6

\* The data rows of the sheet (row 1 holds the headers).
DataRowNumbers == 2..Len(originalData)

\* Absent, or the empty text.
NoValue(cell) == cell.k \in {"null", "undefined"} \/ cell = EmptyString

\* Cell m of the markup columns in row r of the sheet returned.
MarkupCell(r, m) == At(dataWithMarkup[r], Len(keptColumns) + m - 1)

\* The cost cells are read from the column the caller named.
ReadsNamedColumn ==
    /\ adjustedCostColumnIndex >= 0
    /\ adjustedCostColumnIndex < Len(keptColumns)
    /\ keptColumns[adjustedCostColumnIndex + 1] = costColumnIndex

\* C2: in the sheet applyMarkupCalculations returns, a data row whose cost
\* cell is the number 0 has the number 0 in every markup column.
C2_ZeroCostYieldsZeroMarkup ==
    (status = "completed" /\ ReadsNamedColumn) =>
        \A r \in DataRowNumbers :
            At(originalData[r], costColumnIndex) = NumCell(IntNum(0)) =>
                \A m \in DOMAIN markupResult.data : MarkupCell(r, m) = NumCell(IntNum(0))

\* C3: a data row whose cost cell is no valid non-negative number has an
\* empty cell in every markup column, and every row whose cost cell is a
\* valid number has the markup computed from it, in a batch that succeeded.
C3_RowLevelGap ==
    (status = "completed" /\ ReadsNamedColumn) =>
        \A r \in DataRowNumbers : \A m \in DOMAIN markupResult.data :
            LET cost == At(originalData[r], costColumnIndex)
            IN IF isValidCostValue(cost)
               THEN MarkupCell(r, m) =
                        calculateSingleMarkup(cost, markupResult.data[m].percentage,
                                              markupConfig.decimalPlaces)
               ELSE MarkupCell(r, m) = EmptyString

\* The header of the named cost column is a text that reads as a price
\* header and that no kept column to its left bears.
IsPriceText(cell) ==
    /\ cell.k = "string"
    /\ \E w \in { <<"p","r","i","c","e">>, <<"c","o","s","t">>, <<"u","n","i","t">> } :
           \E i \in 0..(Len(cell.s) - Len(w)) :
               SubSeq(toLowerCase(cell.s), i + 1, i + Len(w)) = w

NamedHeaderIsFirstPriceText ==
    /\ IsPriceText(At(originalData[1], costColumnIndex))
    /\ \A c \in 0..(costColumnIndex - 1) :
           At(originalData[1], c) # At(originalData[1], costColumnIndex)

\* C4 as first stated: whenever the named cost column is within the header
\* row and kept by the pruning, the adjusted index designates that column.
C4_AdjustedIndexDesignatesSameColumn ==
    ( /\ status = "completed"
      /\ costColumnIndex >= 0 /\ costColumnIndex < Len(originalData[1])
      /\ costColumnIndex \in Range(keptColumns) )
    => ReadsNamedColumn

\* C4 (amended): when the header of the named cost column is a text
\* containing price, cost or unit that no column to its left bears, the
\* adjusted index is the position k of that column among the kept columns
\* (keptColumns[k] = costColumnIndex) and the markup cells of every row are
\* computed from the cell of that column.
C4_PriceHeaderIsRealigned ==
    ( /\ status = "completed"
      /\ costColumnIndex >= 0 /\ costColumnIndex < Len(originalData[1])
      /\ NamedHeaderIsFirstPriceText )
    => /\ ReadsNamedColumn
       /\ \A r \in DataRowNumbers : \A m \in DOMAIN markupResult.data :
              LET cost == At(originalData[r], costColumnIndex)
              IN (cost.k = "number" /\ cost.n.c > 0) =>
                     MarkupCell(r, m) =
                         calculateSingleMarkup(cost, markupResult.data[m].percentage,
                                               markupConfig.decimalPlaces)

\* The empty column 1 is pruned and the cost column moves from 2 to 1.
C4_Witness ==
    /\ status = "completed"
    /\ originalData[1] = <<Item, Null, Cost>>
    /\ costColumnIndex = 2
    /\ keptColumns = <<0, 2>>
    /\ adjustedCostColumnIndex = 1
    /\ Len(originalData) = 2
    /\ MarkupCell(2, 1) = NumCell(Dec(1375, 2))

\* C5: a column is kept exactly when some cell of it, the header included,
\* holds a value or its header contains price, cost, unit, amount, value or
\* carton; a column headed "Cost Price" is kept whatever its cells; the
\* kept columns keep their order.
C5_KeptColumns ==
    status = "completed" =>
        /\ \A c \in 0..(maxColumns(originalData) - 1) :
               c \in Range(keptColumns) <=>
                   \/ \E r \in DOMAIN originalData : ~NoValue(At(originalData[r], c))
                   \/ \E w \in ImportantHeaderWords :
                          includes(toLowerCase(StringOrEmpty(At(originalData[1], c))), w)
        /\ \A c \in 0..(Len(originalData[1]) - 1) :
               originalData[1][c + 1] = CostPrice => c \in Range(keptColumns)
        /\ \A i, j \in DOMAIN keptColumns : i < j => keptColumns[i] < keptColumns[j]
        /\ \A r \in DOMAIN dataWithMarkup :
               Len(dataWithMarkup[r]) = Len(keptColumns) + Len(markupResult.data)

\* An empty column headed "Cost Price" is kept and an empty column without
\* a header is dropped.
C5_Witness ==
    /\ status = "completed"
    /\ originalData[1] = <<Cost, Null, CostPrice>>
    /\ \A r \in DataRowNumbers : NoValue(At(originalData[r], 2))
    /\ keptColumns = <<0, 2>>

\* C6: every cell of every kept original column of the sheet returned
\* equals the input cell (absent and empty text being taken as the same),
\* and nothing but the markup columns is added.
C6_OriginalDataPreserved ==
    status = "completed" =>
        \A r \in DOMAIN originalData :
            /\ Len(dataWithMarkup[r]) = Len(keptColumns) + Len(markupResult.data)
            /\ \A k \in DOMAIN keptColumns :
                   LET input  == At(originalData[r], keptColumns[k])
                       output == dataWithMarkup[r][k]
                   IN output = input \/ (NoValue(input) /\ NoValue(output))

\* ------------------------------------------------------------ C7 .. C10

\* The sheet of the end-to-end scenario.
ScenarioSheet == <<<<Item, Cost, Qty>>, RowA, RowB>>

\* The row the scenario expects for "A": ["A", 10, 5, 11.00, 12.00].
ScenarioRowA ==
    <<StrCell(<<"A">>), NumCell(IntNum(10)), NumCell(IntNum(5)),
      NumCell(IntNum(11)), NumCell(IntNum(12))>>

\* The sheet has been through detection and the markup service.
PipelineDone == status \in {"completed", "error"}

\* Column 1 detected by the exact match on "cost", and the row for "A" priced.
ScenarioOutcome ==
    /\ detection.columnIndex = 1
    /\ RatLeq(Rat(95, 100), detection.confidence)
    /\ detection.detectionMethod = "header_exact_match"
    /\ status = "completed"
    /\ dataWithMarkup[2] = ScenarioRowA

Detected == detection # NoDetection

C9_ResultIsWellFormed ==
    Detected =>
        /\ RatLeq(RatZero, detection.confidence)
        /\ RatLeq(detection.confidence, Rat(1, 1))
        /\ (detection.columnIndex = 0 - 1) <=> (detection.confidence = RatZero)
        /\ detection.columnIndex # 0 - 1 =>
               /\ detection.columnIndex >= 0
               /\ detection.columnIndex < Len(originalData[1])

\* A result of the last resort: column 0 forced at confidence 0.2.
C9_Witness ==
    /\ Detected
    /\ detection.detectionMethod = "forced_numeric"
    /\ detection.columnIndex = 0
    /\ detection.confidence = Rat(2, 10)

\* The header is, trimmed and in lower case, a keyword or a custom keyword.
IsKeywordHeader(header) ==
    LET h == trim(toLowerCase(header))
    IN \E k \in DOMAIN allKeywords(options) : h = toLowerCase(allKeywords(options)[k])

\* C10: when the preconditions hold and some header equals a keyword, the
\* result is the leftmost such header, at confidence 0.95, by
\* header_exact_match.
C10_ExactMatchOutranks ==
    LET hdrs == stringHeaders(originalData)
    IN ( /\ Detected
         /\ Len(hdrs) > 0
         /\ Len(originalData) - 1 >= options.requiredDataRows
         /\ \E i \in DOMAIN hdrs : IsKeywordHeader(hdrs[i]) )
       => /\ detection.columnIndex = FindIndex(hdrs, IsKeywordHeader)
          /\ detection.confidence = Rat(95, 100)
          /\ detection.detectionMethod = "header_exact_match"

\* ------------------------------------------------ calls of parseNumericValue

\* Texts of the form prefix body suffix, and the placeholders in four
\* letter cases, each bare and with white space around it.
NumberBodySamples ==
    { <<"1","5">>, <<"1",",","2","3","4",".","5","0">>, <<"1","2","3","4",".","5">>,
      <<"0">>, <<"1","2",".","5">>, <<>> }

PrefixSamples == { <<>>, <<"$">>, <<"-">>, <<"$","-">>, <<"(">>, <<"R">> }

SuffixSamples == { <<>>, <<"%">>, <<")">> }

PlaceholderNames ==
    { <<"-">>, <<"N","/","A">>, <<"N","U","L","L">>, <<"#","N","/","A">>, <<"T","B","C">>,
      <<"T","B","A">>, <<"P","O","A">>, <<"C","A","L","L">> }

\* "Tbc" of "TBC"
Capitalised(s) == [i \in DOMAIN s |-> IF i = 1 THEN s[i] ELSE LowerChar(s[i])]

\* "tBc" of "TBC"
AlternateCase(s) == [i \in DOMAIN s |-> IF i % 2 = 1 THEN LowerChar(s[i]) ELSE s[i]]

CaseVariants(s) == { s, toLowerCase(s), Capitalised(s), AlternateCase(s) }

Padded(s) == { s, <<" ">> \o s, s \o <<" ">>, <<" ","\t">> \o s \o <<" ">> }

PlaceholderTexts ==
    UNION { Padded(t) : t \in UNION { CaseVariants(s) : s \in PlaceholderNames } }
    \cup { <<>>, <<" ">>, <<" ","\t">> }

TextSamples ==
    UNION { Padded(p \o b \o x) : p \in PrefixSamples, b \in NumberBodySamples,
                                   x \in SuffixSamples }
    \cup PlaceholderTexts

InitParse ==
    /\ parseArgument \in TextSamples
    /\ parseReturn = Undefined
    /\ MarkupIdle
    /\ SheetIdle
    /\ DetectIdle
    /\ FileIdle
    /\ ReindexIdle
    /\ ExportIdle
    /\ StoreIdle

ParseNumericValue ==
    /\ parseReturn = Undefined
    /\ parseReturn' = parseNumericValue(parseArgument)
    /\ UNCHANGED <<parseArgument, markupVars, sheetVars, detectVars, fileVars, reindexVars, exportVars, storeVars>>

NextParse == ParseNumericValue

SpecParse == InitParse /\ [][NextParse]_vars

\* parseNumericValue has returned.
Parsed == parseReturn # Undefined

\* ------------------------------------------------------------ findHeaderRow

\* String(cell)
StringOf(cell) ==
    IF cell.k = "string" THEN cell.s
    ELSE IF cell.k = "number" THEN NumToString(cell.n)
    ELSE IF cell.k = "boolean" THEN StringOfOther(cell)
    ELSE IF cell.k = "null" THEN <<"n","u","l","l">>
    ELSE <<"u","n","d","e","f","i","n","e","d">>

headerKeywords ==
    << <<"n","a","m","e">>, <<"c","o","d","e">>, <<"i","d">>,
       <<"d","e","s","c","r","i","p","t","i","o","n">>, <<"i","t","e","m">>,
       <<"p","r","o","d","u","c","t">>, <<"s","t","y","l","e">>, <<"p","r","i","c","e">>,
       <<"c","o","s","t">>, <<"u","n","i","t">>, <<"a","m","o","u","n","t">>,
       <<"v","a","l","u","e">>, <<"r","a","t","e">>, <<"t","o","t","a","l">>,
       <<"q","t","y">>, <<"q","u","a","n","t","i","t","y">>, <<"s","t","o","c","k">>,
       <<"a","v","a","i","l","a","b","i","l","i","t","y">>, <<"c","a","r","t","o","n">>,
       <<"p","a","c","k">>, <<"s","i","z","e">>, <<"c","o","l","o","u","r">>,
       <<"c","o","l","o","r">>, <<"b","r","a","n","d">>,
       <<"c","a","t","e","g","o","r","y">>, <<"t","y","p","e">>, <<"m","o","d","e","l">>,
       <<"s","u","p","p","l","i","e","r">>, <<"v","e","n","d","o","r">>,
       <<"m","a","n","u","f","a","c","t","u","r","e","r">>, <<"s","k","u">>,
       <<"b","a","r","c","o","d","e">>, <<"r","e","f">> >>

\* String(cell).toLowerCase().trim()
cellStr(cell) == trim(toLowerCase(StringOf(cell)))

\* !isNaN(Number(s)) for a trimmed s: the empty string (Number('') is 0) or
\* a decimal literal [+-](digits[.digits] | .digits). (Exponents, radix
\* prefixes and "Infinity" do not occur in the strings of this model.)
IsNumericText(s) ==
    LET IsDecimalLiteral(body) ==
            /\ \A i \in DOMAIN body : IsDigit(body[i]) \/ body[i] = "."
            /\ Cardinality({ i \in DOMAIN body : body[i] = "." }) <= 1
            /\ \E i \in DOMAIN body : IsDigit(body[i])
    IN \/ s = <<>>
       \/ s # <<>> /\ IsDecimalLiteral(IF s[1] \in {"+", "-"} THEN Tail(s) ELSE s)

\* s.match(/^\d{1,2}\/\d{1,2}\/\d{2,4}$/)
IsDateText(s) ==
    \E p, q \in DOMAIN s :
        /\ p < q
        /\ \A i \in DOMAIN s : IF i \in {p, q} THEN s[i] = "/" ELSE IsDigit(s[i])
        /\ p - 1 \in 1..2
        /\ q - p - 1 \in 1..2
        /\ Len(s) - q \in 2..4

\* Some keyword is included in the cell's text.
MatchesKeyword(s) == \E k \in Range(headerKeywords) : includes(s, k)

IncludesPriceOrCost(s) ==
    includes(s, <<"p","r","i","c","e">>) \/ includes(s, <<"c","o","s","t">>)

\* A scoring without the bonuses for price, cost and unit.
cellScoreNoBonus(s) ==
    (IF MatchesKeyword(s) THEN 10 ELSE 0)
    - (IF IsNumericText(s) \/ IsDateText(s) THEN 5 ELSE 0)

\* What one non-empty cell adds to the score of its row.
cellScore(s) ==
    (IF MatchesKeyword(s) THEN 10 ELSE 0)
    + (IF IncludesPriceOrCost(s) THEN 15 ELSE 0)
    + (IF includes(s, <<"u","n","i","t">>) /\ IncludesPriceOrCost(s) THEN 20 ELSE 0)
    - (IF IsNumericText(s) \/ IsDateText(s) THEN 5 ELSE 0)

\* The score findHeaderRow gives a row.
rowScore(row) ==
    LET \* cells: cellStr of the cells that are not null, undefined or ''
        Total(cells, headerMatchCount) ==
            LET sum[i \in 0..Len(cells)] ==
                    IF i = 0 THEN 0 ELSE sum[i - 1] + cellScore(cells[i])
            IN sum[Len(cells)]
               + (IF Len(cells) >= 3 THEN Len(cells) * 2 ELSE 0)
               + (IF headerMatchCount >= 2 THEN headerMatchCount * 5 ELSE 0)
        OfCells(cells) ==
            Total(cells, Cardinality({ i \in DOMAIN cells : MatchesKeyword(cells[i]) }))
        OfNonEmpty(nonEmpty) == OfCells([i \in DOMAIN nonEmpty |-> cellStr(nonEmpty[i])])
    IN OfNonEmpty(SelectSeq(row, IsNonEmptyCell))

\* A search in which a row as good as the best so far replaces it.
findHeaderRowLastWins(data) ==
    LET \* the best row after row i (1-based here), given the best before it
        Step(best, i, score) ==
            IF Len(data[i]) > 0 /\ score >= best.score
            THEN [row |-> i - 1, score |-> score]
            ELSE best
        Best(scores) ==
            LET best[i \in 0..Len(scores)] ==
                    IF i = 0 THEN [row |-> 0 - 1, score |-> 0]
                    ELSE Step(best[i - 1], i, scores[i])
            IN best[Len(scores)].row
        UpTo(maxRowsToCheck) == Best([i \in 1..maxRowsToCheck |-> rowScore(data[i])])
    IN UpTo(IF Len(data) < 10 THEN Len(data) ELSE 10)

\* ExcelParsingServiceImpl.findHeaderRow: the 0-based index of the header
\* row, or -1.
findHeaderRow(data) ==
    LET \* the best row after row i (1-based here), given the best before it
        Step(best, i, score) ==
            IF Len(data[i]) > 0 /\ score > best.score
            THEN [row |-> i - 1, score |-> score]
            ELSE best
        Best(scores) ==
            LET best[i \in 0..Len(scores)] ==
                    IF i = 0 THEN [row |-> 0 - 1, score |-> 0]
                    ELSE Step(best[i - 1], i, scores[i])
            IN best[Len(scores)].row
        UpTo(maxRowsToCheck) == Best([i \in 1..maxRowsToCheck |-> rowScore(data[i])])
    IN UpTo(IF Len(data) < 10 THEN Len(data) ELSE 10)

\* parseFile from the rows of the first worksheet on: the error code it
\* returns, or SUCCESS. (MAX_ROWS_PER_FILE is 5000, far above the sheets of
\* this model.)
parseFileOutcome(jsonData, headerRow) ==
    IF Len(jsonData) = 0 THEN "EMPTY_DATA"
    ELSE IF headerRow = 0 - 1 THEN "NO_HEADERS_FOUND"
    ELSE IF Len(jsonData) - headerRow < 2 THEN "INSUFFICIENT_DATA"
    ELSE "SUCCESS"

\* ------------------------------------------------------- calls of parseFile

MaxFileRows == 3

MaxNoiseWidth == 43

Product == StrCell(<<"P","r","o","d","u","c","t">>)
UnitCost == StrCell(<<"U","n","i","t"," ","C","o","s","t">>)
PriceList == StrCell(<<"P","r","i","c","e"," ","L","i","s","t">>)
Acme == StrCell(<<"A","c","m","e">>)
Ltd == StrCell(<<"L","t","d">>)
Year == StrCell(<<"2","0","2","4">>)
DateCell == StrCell(<<"1","/","2","/","2","0","2","4">>)
Blank == StrCell(<<" ">>)

ProductHeaderRow == <<Product, UnitPrice, Qty>>
WideHeaderRow == <<Product, UnitPrice, UnitCost, Qty>>
TitleRow == <<PriceList>>
NullRow == <<Null, EmptyString, Undefined>>
NumbersRow == <<Acme, Null, Year, Blank>>
DatedRow == <<DateCell, Acme, Ltd>>
ProductRow == <<StrCell(<<"A">>), NumCell(IntNum(10)), NumCell(IntNum(5))>>

FileRowSamples ==
    { ProductHeaderRow, WideHeaderRow, TitleRow, NullRow, DatedRow, ProductRow }

\* A row of n cells of text that holds no keyword.
WideNoiseRow(n) == [i \in 1..n |-> IF i % 2 = 1 THEN Acme ELSE Ltd]

NoiseRowSamples ==
    { <<>>, NullRow, NumbersRow, DatedRow, ProductRow }
    \cup { WideNoiseRow(n) : n \in {1, 3, MaxNoiseWidth - 1, MaxNoiseWidth} }

\* Sheets of up to MaxFileRows rows below 0, 8 or 10 leading rows, and
\* sheets with two noise rows above the header row.
GridSamples ==
    { Repeat(lead, k) \o body : lead \in {<<>>, NumbersRow}, k \in {0, 8, 10},
                                 body \in SeqsUpTo(FileRowSamples, MaxFileRows) }
    \cup { <<r0, r1, ProductHeaderRow>> \o below :
              r0 \in NoiseRowSamples, r1 \in NoiseRowSamples,
              below \in { <<>>, <<ProductRow>>, <<ProductRow, WideNoiseRow(3)>> } }

InitFile ==
    /\ rawData \in GridSamples
    /\ headerRowIndex = 0 - 1
    /\ parseFileResult = "reading"
    /\ MarkupIdle
    /\ SheetIdle
    /\ DetectIdle
    /\ ParseIdle
    /\ ReindexIdle
    /\ ExportIdle
    /\ StoreIdle

ParseFile ==
    /\ parseFileResult = "reading"
    /\ headerRowIndex' = (IF Len(rawData) = 0 THEN 0 - 1 ELSE findHeaderRow(rawData))
    /\ parseFileResult' = parseFileOutcome(rawData, headerRowIndex')
    /\ UNCHANGED <<rawData, markupVars, sheetVars, detectVars, parseVars, reindexVars, exportVars, storeVars>>

NextFile == ParseFile

SpecFile == InitFile /\ [][NextFile]_vars

\* ------------------------- the markup service on valid and invalid inputs

MaxFillerRows == 200

ValidateHeaderSamples == { <<Item, Cost, Qty>>, <<Item, Cost>>, <<>> }

ValidRow == <<StrCell(<<"A">>), NumCell(IntNum(10)), NumCell(IntNum(5))>>
InvalidRow == <<StrCell(<<"D">>), StrCell(TBC), BoolCell(FALSE)>>
ShortRow == <<StrCell(<<"G">>)>>

ValidateRowSamples ==
    { ValidRow, InvalidRow, ShortRow,
      <<StrCell(<<"C">>), NumCell(IntNum(0 - 5)), NumCell(IntNum(1))>>,
      <<StrCell(<<"E">>), Null, StrCell(<<"1","2",".","5","0">>)>> }

\* Sheets of a few rows, and sheets of one priced row above MaxFillerRows - 1
\* or MaxFillerRows rows that are too short or hold no cost.
ValidateSheetSamples ==
    { <<>> }
    \cup { <<hdr>> \o rws : hdr \in ValidateHeaderSamples,
                            rws \in SeqsUpTo(ValidateRowSamples, MaxDataRows) }
    \cup { <<(<<Item, Cost, Qty>>), ValidRow>> \o [i \in 1..n |-> filler] :
              filler \in {InvalidRow, ShortRow}, n \in {MaxFillerRows - 1, MaxFillerRows} }

ValidatePercentagesSamples ==
    { <<>>, <<IntNum(10), IntNum(20)>>, <<IntNum(0)>>, <<IntNum(10), IntNum(0 - 5)>>, <<NaN>> }

ValidateDecimalPlacesSamples ==
    { IntNum(0), IntNum(2), IntNum(10), IntNum(11), IntNum(0 - 1), Dec(25, 1), NaN }

ValidateConfigSamples ==
    { [percentages |-> ps, decimalPlaces |-> dp, currencySymbol |-> <<>>] :
        ps \in ValidatePercentagesSamples, dp \in ValidateDecimalPlacesSamples }

InitValidate ==
    /\ MarkupIdle
    /\ DetectIdle
    /\ ParseIdle
    /\ FileIdle
    /\ originalData \in ValidateSheetSamples
    /\ costColumnIndex \in (0 - 1)..3
    /\ markupConfig \in ValidateConfigSamples
    /\ markupResult = NoResult
    /\ dataWithMarkup = <<>>
    /\ keptColumns = <<>>
    /\ adjustedCostColumnIndex = 0 - 1
    /\ status = "calculating"
    /\ ReindexIdle
    /\ ExportIdle
    /\ StoreIdle

NextValidate == CalculateMarkupColumns \/ ApplyMarkupCalculations

SpecValidate == InitValidate /\ [][NextValidate]_vars

\* ---------------------------------------------- calls of findBestPriceColumn

MaxHeaders == 3

PriceHeaderCellSamples ==
    { UnitPrice, StrCell(<<"P","r","i","c","e"," ","f","o","r"," ","C","a","r","t","o","n"," ","Q","t","y">>), StrCell(<<"P","r","i","c","e"," ","f","o","r"," ","b","o","x">>), UnitCost,
      StrCell(<<"S","E","L","L","I","N","G"," ","P","R","I","C","E">>), StrCell(<<"L","i","s","t"," ","p","r","i","c","e">>), Price, Cost, Amount,
      StrCell(<<"V","a","l","u","e">>), Code, StrCell(<<"S","i","z","e">>), StrCell(<<"R","e","m","a","r","k","s">>), Item, Null }

InitReindex ==
    /\ priceHeaders \in SeqsUpTo(PriceHeaderCellSamples, MaxHeaders)
    /\ bestPriceColumn = 0 - 2
    /\ MarkupIdle
    /\ SheetIdle
    /\ DetectIdle
    /\ ParseIdle
    /\ FileIdle
    /\ ExportIdle
    /\ StoreIdle

FindBestPriceColumn ==
    /\ bestPriceColumn = 0 - 2
    /\ bestPriceColumn' = findBestPriceColumn(priceHeaders)
    /\ UNCHANGED <<priceHeaders, markupVars, sheetVars, detectVars, parseVars, fileVars, exportVars, storeVars>>

NextReindex == FindBestPriceColumn

SpecReindex == InitReindex /\ [][NextReindex]_vars

\* ------------------------------------------------ generateConsolidatedWorkbook

\* filename.replace(/\.[^/.]+$/, ''): the name without its extension.
StripExtension(filename) ==
    LET dots == { i \in DOMAIN filename : filename[i] = "." }
        Stripped(last) ==
            IF last < Len(filename) /\ \A i \in (last + 1)..Len(filename) : filename[i] # "/"
            THEN SubSeq(filename, 1, last - 1)
            ELSE filename
    IN IF dots = {} THEN filename ELSE Stripped(Max(dots))

\* name.replace(/[\\\/\*\?\[\]:]/g, '_')
ReplaceForbidden(name) ==
    [i \in DOMAIN name |->
        IF name[i] \in {"\\", "/", "*", "?", "[", "]", ":"} THEN "_" ELSE name[i]]

\* ExcelExportServiceImpl.generateWorksheetName
generateWorksheetName(filename, index) ==
    LET Named(name) ==
            IF name # <<>> THEN name ELSE <<"S","h","e","e","t">> \o IntToStr(index + 1)
        Cut(name) == Named(IF Len(name) > 25 THEN SubSeq(name, 1, 25) ELSE name)
    IN Cut(ReplaceForbidden(StripExtension(filename)))

\* pricelists.filter(p => p.status === 'completed' && p.processedData), as
\* the indices of the pricelists kept.
completedPricelists(lists) ==
    SelectSeq([i \in DOMAIN lists |-> i],
              LAMBDA i : lists[i].status = "completed" /\ lists[i].processedData)

\* XLSX.utils.book_append_sheet: the sheets of the workbook after the call, or
\* "throws" when the workbook has a sheet of that name already (SheetJS
\* raises 'Worksheet with name |x| already exists!').
book_append_sheet(sheets, name, source) ==
    IF sheets = "throws" \/ \E i \in DOMAIN sheets : sheets[i].name = name THEN "throws"
    ELSE Append(sheets, [name |-> name, source |-> source])

\* The sheets of the workbook after the loop over the completed pricelists:
\* source is the 1-based position of the pricelist, 0 for the Master sheet.
WorkbookSheets(variant, lists) ==
    LET completed == completedPricelists(lists)
        start == IF variant = "part_001" /\ completed # <<>>
                 THEN book_append_sheet(<<>>, <<"M","a","s","t","e","r">>, 0)
                 ELSE <<>>
        after[k \in 0..Len(completed)] ==
            IF k = 0 THEN start
            ELSE book_append_sheet(after[k - 1],
                     generateWorksheetName(lists[completed[k]].filename, k - 1), completed[k])
    IN after[Len(completed)]

ExportFailure(code) == [success |-> FALSE, code |-> code, sheets |-> <<>>]

\* ExcelExportServiceImpl.generateConsolidatedWorkbook, in the copy of
\* services/excel-export.service.ts ("services") and in the copy with the
\* Master sheet ("part_001").
generateConsolidatedWorkbook(variant, lists) ==
    LET Written(sheets) ==
            IF sheets = "throws" THEN ExportFailure("EXPORT_ERROR")
            ELSE IF completedPricelists(lists) = <<>> THEN ExportFailure("NO_DATA_TO_EXPORT")
            ELSE [success |-> TRUE, code |-> "", sheets |-> sheets]
    IN IF lists = <<>> THEN ExportFailure("NO_PRICELISTS")
       ELSE Written(WorkbookSheets(variant, lists))

MaxPricelists == 3

FilenameSamples ==
    { <<"a",".","x","l","s","x">>, <<"a",".","x","l","s">>, <<".","x","l","s","x">>, <<"a",":","b",".","x","l","s","x">>, <<"M","a","s","t","e","r",".","x","l","s","x">>,
      <<"s","u","p","p","l","i","e","r","-","p","r","i","c","e","l","i","s","t","-","2","0","2","4","-","q","1",".","v","2",".","x","l","s","x">> }

PricelistSamples ==
    { [filename |-> f, status |-> st[1], processedData |-> st[2]] :
        f \in FilenameSamples,
        st \in { <<"completed", TRUE>>, <<"completed", FALSE>>, <<"error", FALSE>> } }

InitExport ==
    /\ exportVariant \in {"services", "part_001"}
    /\ pricelists \in SeqsUpTo(PricelistSamples, MaxPricelists)
    /\ exportResult = ExportFailure("NOT_CALLED")
    /\ MarkupIdle
    /\ SheetIdle
    /\ DetectIdle
    /\ ParseIdle
    /\ FileIdle
    /\ ReindexIdle
    /\ StoreIdle

GenerateConsolidatedWorkbook ==
    /\ exportResult = ExportFailure("NOT_CALLED")
    /\ exportResult' = generateConsolidatedWorkbook(exportVariant, pricelists)
    /\ UNCHANGED <<exportVariant, pricelists, markupVars, sheetVars, detectVars, parseVars,
                   fileVars, reindexVars, storeVars>>

NextExport == GenerateConsolidatedWorkbook

SpecExport == InitExport /\ [][NextExport]_vars

\* ------------------------------------------------------------------ C11

\* C11: for every text that contains '%' and whose cleaned numeric part
\* parses to a number n, parseNumericValue returns n / 100 (its absolute
\* value is accepted too, the sign being the subject of C14): "15%" gives
\* 0.15.
C11_PercentIsDividedBy100 ==
    (Parsed /\ "%" \in Range(parseArgument)
            /\ ~isNaN(parseFloat(Cleaned(trim(parseArgument)))))
    => LET n == parseFloat(Cleaned(trim(parseArgument)))
       IN parseReturn \in { NumCell(NumDiv100(n)), NumCell(NumAbs(NumDiv100(n))) }

\* ------------------------------------------------------------------ C12

\* An amount: digits with ',' and '.' in it, a currency symbol allowed.
IsAmountChar(ch) == IsDigit(ch) \/ ch \in {",", "."} \/ IsCurrencySymbol(ch)

IsAmountText(t) ==
    /\ \A i \in DOMAIN t : IsAmountChar(t[i])
    /\ \E i \in DOMAIN t : IsDigit(t[i])

\* The number an amount denotes once its currency symbols and thousands
\* separators are removed.
AmountOf(t) == parseFloat(RemoveChars(RemoveChars(t, IsCurrencySymbol), IsSeparator))

\* C12: currency symbols and thousands separators are stripped before the
\* number is read: "$1,234.50" and "1,234.50" both give 1234.50, never the
\* prefix before the first separator.
C12_SeparatorsAreStripped ==
    (Parsed /\ IsAmountText(trim(parseArgument)))
    => parseReturn = NumCell(AmountOf(trim(parseArgument)))

\* ------------------------------------------------------------------ C13

\* The text is, letter case and surrounding white space apart, the empty
\* string or one of the placeholders.
IsPlaceholderText(t) ==
    toLowerCase(trim(t)) \in { toLowerCase(s) : s \in PlaceholderNames } \cup { <<>> }

\* C13: parseNumericValue returns null for the empty string and for each of
\* the placeholders -, N/A, NULL, #N/A, TBC, TBA, POA, CALL in any letter
\* case, with or without white space around it.
C13_PlaceholdersGiveNull ==
    (Parsed /\ IsPlaceholderText(parseArgument)) => parseReturn = Null

\* A placeholder in mixed case with white space around it has been parsed.
C13_Witness ==
    /\ Parsed
    /\ trim(parseArgument) = <<"t","B","a">>
    /\ parseArgument # trim(parseArgument)
    /\ parseReturn = Null

\* ------------------------------------------------------------------ C14

\* C14: parseNumericValue never returns a negative number, whichever path
\* (direct parse, cleaned parse, percentage) produced it.
C14_NeverNegative ==
    (Parsed /\ parseReturn.k = "number") => parseReturn.n.c >= 0

\* ------------------------------------------------------------------ C15

\* parseFile has returned.
FileParsed == parseFileResult \notin {"idle", "reading"}

\* The 0-based indices of the rows findHeaderRow may examine.
ExaminedRows == 0..((IF Len(rawData) < 10 THEN Len(rawData) ELSE 10) - 1)

\* C15: findHeaderRow looks at the first min(10, rowCount) rows only and
\* returns the index of the row with the strictly highest score, the
\* earliest one among equals; it returns -1 exactly when no examined row
\* scores above 0, and parseFile then fails with NO_HEADERS_FOUND.
C15_StrictlyBestExaminedRow ==
    (FileParsed /\ rawData # <<>>)
    => LET Holds(scores) ==
               /\ headerRowIndex \in ExaminedRows \cup {0 - 1}
               /\ (headerRowIndex = 0 - 1) <=> (\A i \in ExaminedRows : scores[i] <= 0)
               /\ headerRowIndex # 0 - 1 =>
                      /\ scores[headerRowIndex] > 0
                      /\ \A i \in ExaminedRows :
                             /\ scores[i] <= scores[headerRowIndex]
                             /\ i < headerRowIndex => scores[i] < scores[headerRowIndex]
               /\ (parseFileResult = "NO_HEADERS_FOUND") <=> (headerRowIndex = 0 - 1)
       IN Holds([i \in ExaminedRows |-> rowScore(rawData[i + 1])])

\* A sheet of more than ten rows has been searched: the row returned is an
\* examined one although the eleventh row scores higher.
C15_Witness ==
    /\ FileParsed
    /\ Len(rawData) > 10
    /\ headerRowIndex = 9
    /\ rowScore(rawData[11]) > rowScore(rawData[10])

\* Two examined rows share the highest score and the earlier one is returned.
C15_TieWitness ==
    /\ FileParsed
    /\ \E i, j \in ExaminedRows :
           /\ i < j
           /\ headerRowIndex = i
           /\ rowScore(rawData[i + 1]) = rowScore(rawData[j + 1])

\* ------------------------------------------------------------------ C16

\* The cells of the row that are not null, undefined or ''.
NonEmptyCells(row) == SelectSeq(row, IsNonEmptyCell)

\* Noise: no cell of the row holds a header keyword.
IsNoiseRow(row) ==
    \A i \in DOMAIN row : IsNonEmptyCell(row[i]) => ~MatchesKeyword(cellStr(row[i]))

\* Row 2 is ["Product","Unit Price","Qty"] and rows 0 and 1 are empty or noise.
HeaderBelowNoise ==
    /\ Len(rawData) >= 3
    /\ rawData[3] = ProductHeaderRow
    /\ IsNoiseRow(rawData[1])
    /\ IsNoiseRow(rawData[2])

\* C16 as stated: on every grid whose row 2 is ["Product","Unit Price","Qty"]
\* and whose rows 0 and 1 are empty or noise, findHeaderRow returns 2.
C16_HeaderBelowNoiseIsFound ==
    (FileParsed /\ HeaderBelowNoise) => headerRowIndex = 2

\* C16, amended: on every grid whose row 2 is ["Product","Unit Price","Qty"]
\* and whose other examined rows are empty or noise with at most 42 non-empty
\* cells each, findHeaderRow returns 2.
C16_HeaderBelowNarrowNoiseIsFound ==
    (/\ FileParsed
     /\ HeaderBelowNoise
     /\ \A i \in ExaminedRows \ {2} :
            IsNoiseRow(rawData[i + 1]) /\ Len(NonEmptyCells(rawData[i + 1])) <= 42)
    => headerRowIndex = 2

\* The header row has been found below a noise row of 42 cells.
C16_Witness ==
    /\ FileParsed
    /\ HeaderBelowNoise
    /\ Len(NonEmptyCells(rawData[1])) = 42
    /\ Len(rawData) > 3
    /\ headerRowIndex = 2

\* ------------------------------------------------------------------ C17

\* calculateMarkupColumns has returned.
Calculated == markupResult # NoResult

\* dp is an integer in [0, 10].
IsIntegerIn0To10(dp) == ~isNaN(dp) /\ dp.d = 0 /\ dp.c \in 0..10

\* C17: calculateMarkupColumns fails for every decimalPlaces that is not an
\* integer in [0, 10], 2.5 and NaN included, before any row is processed.
C17_BadDecimalPlacesFail ==
    (Calculated /\ ~IsIntegerIn0To10(markupConfig.decimalPlaces))
    => (~markupResult.success /\ dataWithMarkup = <<>>)

\* ------------------------------------------------------------------ C18

\* The grid is empty, the header row is empty, costColumnIndex is out of
\* range, or percentages is empty or holds a negative or NaN value.
InvalidInputs ==
    \/ originalData = <<>>
    \/ originalData # <<>> /\ originalData[1] = <<>>
    \/ originalData # <<>> /\ costColumnIndex \notin 0..(Len(originalData[1]) - 1)
    \/ markupConfig.percentages = <<>>
    \/ \E i \in DOMAIN markupConfig.percentages :
           isNaN(markupConfig.percentages[i]) \/ markupConfig.percentages[i].c < 0

InputErrorCodes ==
    { "EMPTY_DATA", "INVALID_HEADERS", "INVALID_COST_COLUMN_INDEX",
      "INVALID_MARKUP_PERCENTAGES", "INVALID_MARKUP_PERCENTAGE" }

\* C18: on an empty grid, an empty header row, a costColumnIndex out of
\* range, or percentages that are empty or hold a negative or NaN value,
\* calculateMarkupColumns fails with an error code and produces no markup
\* columns, and the store stops in error without calling
\* applyMarkupCalculations.
C18_InvalidInputsFailFirst ==
    (Calculated /\ InvalidInputs)
    => /\ ~markupResult.success
       /\ markupResult.code \in InputErrorCodes
       /\ markupResult.data = <<>>
       /\ status = "error"
       /\ dataWithMarkup = <<>>
       /\ ~ENABLED ApplyMarkupCalculations

\* A call with a negative percentage, everything else being valid, has failed.
C18_Witness ==
    /\ Calculated
    /\ validateInputsSheetOnly(originalData, costColumnIndex, markupConfig) = ""
    /\ validateCostColumn(Tail(originalData), costColumnIndex)
    /\ IsIntegerIn0To10(markupConfig.decimalPlaces)
    /\ \E i \in DOMAIN markupConfig.percentages : markupConfig.percentages[i].c < 0
    /\ markupResult.code = "INVALID_MARKUP_PERCENTAGE"
    /\ status = "error"

\* ------------------------------------------------------------------ C19

\* The data rows whose cell in the cost column is a valid non-negative cost;
\* a row too short to have that cell is not one of them.
RowsWithValidCost ==
    { r \in 2..Len(originalData) :
        /\ Len(originalData[r]) > costColumnIndex
        /\ isValidCostValue(At(originalData[r], costColumnIndex)) }

\* The data rows long enough to have a cell in the cost column.
RowsWithCostCell == { r \in 2..Len(originalData) : Len(originalData[r]) > costColumnIndex }

\* Fewer than 0.5% of the data rows have a valid cost.
TooFewValidCosts == Cardinality(RowsWithValidCost) * 1000 < 5 * Len(Tail(originalData))

Applied == status = "completed"

\* C20: after a successful calculateMarkupColumns the MarkupColumns have
\* pairwise distinct columnIndex values, each at least the length of the
\* header row, and each columnIndex is the position at which that column's
\* header and values stand in the grid applyMarkupCalculations returns.
C20_ColumnIndexIsOutputPosition ==
    Applied
    => LET cols == markupResult.data
           \* the position of the k-th appended cell in a row of the output
           Position(row, k) == Len(row) - Len(cols) + k - 1
       IN /\ \A j, k \in DOMAIN cols : j # k => cols[j].columnIndex # cols[k].columnIndex
          /\ \A k \in DOMAIN cols :
                 /\ cols[k].columnIndex >= Len(originalData[1])
                 /\ At(dataWithMarkup[1], cols[k].columnIndex) = StrCell(cols[k].header)
                 /\ \A r \in DOMAIN dataWithMarkup :
                        cols[k].columnIndex = Position(dataWithMarkup[r], k)

\* ------------------------------------------------------------------ C21

\* findBestPriceColumn has returned.
Reindexed == bestPriceColumn # 0 - 2

\* The phrases the fallback is said to try, in order.
SpecifiedPhrases ==
    << <<"u","n","i","t"," ","p","r","i","c","e">>, <<"p","r","i","c","e"," ","f","o","r"," ","c","a","r","t","o","n">>, <<"u","n","i","t"," ","c","o","s","t">>, <<"s","e","l","l","i","n","g"," ","p","r","i","c","e">>, <<"l","i","s","t"," ","p","r","i","c","e">>,
       <<"p","r","i","c","e">>, <<"c","o","s","t">>, <<"a","m","o","u","n","t">>, <<"v","a","l","u","e">> >>

Least(S) == CHOOSE m \in S : \A x \in S : m <= x

\* The index returned is the one of the leftmost header that contains the
\* first phrase of the list contained in any header; without such a phrase,
\* the one of the first header free of exclusion words; 0 otherwise.
ReturnsFirstPhraseMatch(phrases) ==
    LET text == [i \in DOMAIN priceHeaders |-> toLowerCase(StringOrEmpty(priceHeaders[i]))]
        Holding(k) == { i \in DOMAIN text : includes(text[i], phrases[k]) }
        matching == { k \in DOMAIN phrases : Holding(k) # {} }
        free == { i \in DOMAIN text : ~IncludesAny(text[i], ExclusionWords) }
    IN IF matching # {} THEN bestPriceColumn = Least(Holding(Least(matching))) - 1
       ELSE IF free # {} THEN bestPriceColumn = Least(free) - 1
       ELSE bestPriceColumn = 0

\* C21 as stated: findBestPriceColumn tries "unit price", "price for carton",
\* "unit cost", "selling price", "list price", "price", "cost", "amount",
\* "value" in exactly that order and returns the leftmost header containing
\* the first phrase that matches; otherwise the first column without an
\* exclusion word; otherwise 0.
C21_SpecifiedPhraseOrder == Reindexed => ReturnsFirstPhraseMatch(SpecifiedPhrases)

\* C21, amended: the same with the phrase "price for" tried third, between
\* "price for carton" and "unit cost".
C21_PhraseOrderWithPriceFor == Reindexed => ReturnsFirstPhraseMatch(priceKeywords)

\* "Price for box" to the right of "Unit Cost" has been chosen.
C21_Witness ==
    /\ Reindexed
    /\ Len(priceHeaders) >= 2
    /\ priceHeaders[1] = UnitCost
    /\ priceHeaders[2] = StrCell(<<"P","r","i","c","e"," ","f","o","r"," ","b","o","x">>)
    /\ bestPriceColumn = 1

\* ------------------------------------------------------------------ C22

\* generateConsolidatedWorkbook has returned.
Exported == exportResult.code # "NOT_CALLED"

\* The positions of the pricelists that are completed and have processedData.
CompletedWithData ==
    { i \in DOMAIN pricelists :
        pricelists[i].status = "completed" /\ pricelists[i].processedData }

\* C22: for a non-empty list with at least one completed pricelist that has
\* processedData, generateConsolidatedWorkbook succeeds and the workbook has
\* exactly one worksheet of its own for each completed pricelist, whatever
\* the filenames; an empty list fails with NO_PRICELISTS and a list without
\* a completed pricelist with NO_DATA_TO_EXPORT.
C22_OneWorksheetPerCompletedPricelist ==
    Exported
    => /\ pricelists = <<>> => exportResult.code = "NO_PRICELISTS"
       /\ (pricelists # <<>> /\ CompletedWithData = {})
              => exportResult.code = "NO_DATA_TO_EXPORT"
       /\ CompletedWithData # {}
              => /\ exportResult.success
                 /\ \A i \in CompletedWithData :
                        Cardinality({ k \in DOMAIN exportResult.sheets :
                                        exportResult.sheets[k].source = i }) = 1
                 /\ \A k \in DOMAIN exportResult.sheets :
                        exportResult.sheets[k].source \in CompletedWithData \cup {0}

\* ------------------------------------------------- the parsing of a file

\* The classes of ExcelParsingServiceImpl.parseNumericValue: currency
\* symbols, commas and white space, parentheses.
IsRemovedByParsing(ch) ==
    ch \in {"$", "pound", "euro", "yen", "rupee", ","} \/ IsSpace(ch) \/ IsParenthesis(ch)

\* /^-?\d*\.?\d+$/
LooksLikeNumber(cleaned) ==
    LET IsUnsigned(body) ==
            /\ body # <<>>
            /\ \A i \in DOMAIN body : IsDigit(body[i]) \/ body[i] = "."
            /\ Cardinality({ i \in DOMAIN body : body[i] = "." }) <= 1
            /\ IsDigit(body[Len(body)])
    IN IF cleaned # <<>> /\ cleaned[1] = "-" THEN IsUnsigned(Tail(cleaned))
       ELSE IsUnsigned(cleaned)

\* ExcelParsingServiceImpl.parseNumericValue: a number cell or Null.
parseNumericText(value) ==
    LET OfCleaned(cleaned) ==
            IF LooksLikeNumber(cleaned) THEN NumCell(parseFloat(cleaned)) ELSE Null
    IN OfCleaned(SelectSeq(value, LAMBDA ch : ~IsRemovedByParsing(ch)))

\* cleanExcelData on one cell (dates do not occur in the sheets of this model).
cleanCell(cell) ==
    LET OfTrimmed(trimmed, numericValue) ==
            IF numericValue # Null THEN numericValue ELSE StrCell(trimmed)
    IN IF cell = Undefined \/ cell = EmptyString THEN Null
       ELSE IF cell.k = "string" THEN OfTrimmed(trim(cell.s), parseNumericText(trim(cell.s)))
       ELSE cell

cleanExcelData(data) ==
    [r \in DOMAIN data |-> [c \in DOMAIN data[r] |-> cleanCell(data[r][c])]]

\* A File: its name, whether validateFile accepts it (type and size),
\* whether XLSX.read reads it, and the rows sheet_to_json gives for its
\* first worksheet.
File(name, isValid, isReadable, jsonData) ==
    [name |-> name, isValid |-> isValid, isReadable |-> isReadable, jsonData |-> jsonData]

\* validateFile(file).isValid
validateFile(file) == file.isValid

\* ExcelParsingServiceImpl.parseFile: the ProcessingResult it resolves to.
parseFile(file) ==
    LET Extracted(jsonData, headerRow) ==
            IF parseFileOutcome(jsonData, headerRow) # "SUCCESS"
            THEN Failure(parseFileOutcome(jsonData, headerRow))
            ELSE Success(cleanExcelData(SubSeq(jsonData, headerRow + 1, Len(jsonData))))
    IN IF ~validateFile(file) THEN Failure("FILE_VALIDATION_ERROR")
       ELSE IF ~file.isReadable THEN Failure("PARSING_ERROR")
       ELSE Extracted(file.jsonData,
                      IF Len(file.jsonData) = 0 THEN 0 - 1 ELSE findHeaderRow(file.jsonData))

\* ---------------------------------------------------------------- the store

\* processedData: undefined.
NoProcessedData ==
    [present |-> FALSE, headers |-> <<>>, rows |-> <<>>, totalRows |-> 0,
     detectedCostColumn |-> 0 - 1, confidence |-> RatZero, markupColumns |-> <<>>,
     dataWithMarkup |-> <<>>]

\* The pricelist addFiles creates for a file; the id pricelist-n is n.
NewPricelist(id, file) ==
    [id |-> id, filename |-> file.name, originalData |-> <<>>, status |-> "idle",
     progress |-> 0, errors |-> <<>>, processedData |-> NoProcessedData]

\* files.map(f => f.id === id ? change(f) : f)
MapFile(fs, id, change(_)) ==
    [i \in DOMAIN fs |-> IF fs[i].id = id THEN change(fs[i]) ELSE fs[i]]

\* addFiles: the files of the store after the call.
addFiles(fs, firstId, added) ==
    fs \o [i \in DOMAIN added |-> NewPricelist(firstId + i - 1, added[i])]

\* removeFile
removeFile(fs, id) == SelectSeq(fs, LAMBDA f : f.id # id)

\* An updateCostColumn that moves a file without processedData to the column too.
updateCostColumnOfAny(fs, id, columnIndex) ==
    MapFile(fs, id, LAMBDA f : [f EXCEPT !.processedData.detectedCostColumn = columnIndex])

\* updateCostColumn
updateCostColumn(fs, id, columnIndex) ==
    [i \in DOMAIN fs |->
        IF fs[i].id = id /\ fs[i].processedData.present
        THEN [fs[i] EXCEPT !.processedData.detectedCostColumn = columnIndex]
        ELSE fs[i]]

\* parseAndProcessFile, its first set: status parsing, progress 10.
startParsing(fs, id) ==
    MapFile(fs, id, LAMBDA f : [f EXCEPT !.status = "parsing", !.progress = 10])

\* A failure that leaves the status and the progress as they are.
failProcessingSilently(fs, id, code) ==
    MapFile(fs, id, LAMBDA f : [f EXCEPT !.errors = <<code>>])

\* The set of a failure: status error, progress 0, errors [error].
failProcessing(fs, id, code) ==
    MapFile(fs, id, LAMBDA f : [f EXCEPT !.status = "error", !.progress = 0, !.errors = <<code>>])

\* The ProcessedData processIndividualFile builds.
ProcessedData(sheet, detected, markupColumns, config) ==
    [present |-> TRUE,
     headers |-> [i \in DOMAIN sheet[1] |-> StringOf(sheet[1][i])],
     rows |-> dataRows(sheet),
     totalRows |-> Len(dataRows(sheet)),
     detectedCostColumn |-> detected.columnIndex,
     confidence |-> detected.confidence,
     markupColumns |-> markupColumns,
     dataWithMarkup |-> applyMarkupCalculations(sheet, detected.columnIndex, markupColumns,
                                                config)]

\* A success that does not store the processedData.
completeProcessingWithoutData(fs, id, processedData) ==
    MapFile(fs, id, LAMBDA f : [f EXCEPT !.status = "completed", !.progress = 100])

\* The set of a success: processedData, status completed, progress 100.
completeProcessing(fs, id, processedData) ==
    MapFile(fs, id, LAMBDA f : [f EXCEPT !.processedData = processedData,
                                          !.status = "completed", !.progress = 100])

\* What processIndividualFile computes from the sheet of a file: the
\* detection, the ProcessingResult of calculateMarkupColumns and, when that
\* is a success, the ProcessedData.
ProcessingOf(sheet, config) ==
    LET Calculated_(detected, markupOutcome) ==
            [detected |-> detected,
             markupOutcome |-> markupOutcome,
             processedData |-> IF markupOutcome.success
                               THEN ProcessedData(sheet, detected, markupOutcome.data, config)
                               ELSE NoProcessedData]
        ColumnDetected(detected) ==
            Calculated_(detected, calculateMarkupColumns(sheet, detected.columnIndex, config))
    IN ColumnDetected(detectCostPriceColumn(stringHeaders(sheet), dataRows(sheet),
                                            defaultOptions))

\* processIndividualFile, which runs to its end without awaiting anything:
\* the files of the store after it; processing[sheet] is ProcessingOf the
\* sheet with the markupConfig of the store. (Nothing throws on the sheets
\* and the configuration of this model, so that the catch block is not
\* entered.)
processIndividualFile(fs, id, processing) ==
    LET Processed(outcome) ==
            IF ~outcome.markupOutcome.success
            THEN failProcessing(fs, id, outcome.markupOutcome.code)
            ELSE completeProcessing(fs, id, outcome.processedData)
        found == { i \in DOMAIN fs : fs[i].id = id }
        file == fs[CHOOSE i \in found : \A j \in found : i <= j]
    IN IF found = {} THEN fs
       ELSE IF Len(file.originalData) = 0 THEN fs
       ELSE Processed(processing[file.originalData])

\* parseAndProcessFile from the result of parseFile on.
finishParsing(fs, id, parseResult, processing) ==
    IF ~parseResult.success THEN failProcessing(fs, id, parseResult.code)
    ELSE processIndividualFile(
             MapFile(fs, id, LAMBDA f : [f EXCEPT !.originalData = parseResult.data,
                                                   !.status = "detecting", !.progress = 50]),
             id, processing)

\* ------------------------------------------------------------ the store runs

\* The most pricelists in the store, the most callbacks and parses in
\* flight, and the greatest id addFiles issues.
MaxFiles == 2

MaxTasks == 2

MaxId == 2

SupplierA == <<"a",".","x","l","s","x">>
SupplierB == <<"b",".","x","l","s","x">>
SupplierC == <<"c",".","x","l","s">>
SupplierD == <<"d",".","p","d","f">>

\* Five priced rows under Item, Cost, Qty: completed with column 1.
FileA == File(SupplierA, TRUE, TRUE, <<<<Item, Cost, Qty>>, RowA, RowB, RowA, RowB, RowA>>)

\* A title row, then five rows priced in text under Product, Unit Price, Qty.
FileB ==
    File(SupplierB, TRUE, TRUE,
         <<TitleRow, ProductHeaderRow, RowT, RowT, RowT, RowT, RowT>>)

\* Two priced rows only: too few for the detection.
FileC == File(SupplierC, TRUE, TRUE, <<<<Item, Cost, Qty>>, RowA, RowB>>)

\* Not an Excel file.
FileD == File(SupplierD, FALSE, FALSE, <<>>)

FileSamples == { FileA, FileB, FileC, FileD }

\* The file of the samples a pricelist of that filename was created for.
FileNamed(filename) == CHOOSE file \in FileSamples : file.name = filename

CostColumnSamples == { 0 - 1, 2 }

\* The callbacks and the parses there can be.
Tasks == [id : 1..MaxId, file : FileSamples]

InFlight == BagCardinality(timers) + BagCardinality(reading)

\* parseFile on each file of the samples, computed once.
ParsedFiles == [file \in FileSamples |-> parseFile(file)]

\* The sheets parseFile gives for the files of the samples.
ParsedSheets ==
    { ParsedFiles[file].data : file \in { f \in FileSamples : ParsedFiles[f].success } }

\* ProcessingOf with the markupConfig of the store on each of these sheets,
\* computed once.
ProcessedSheets == [sheet \in ParsedSheets |-> ProcessingOf(sheet, StoreConfig)]

\* processFiles: processIndividualFile on each file that was idle.
RECURSIVE processEach(_, _)
processEach(fs, ids) ==
    IF ids = <<>> THEN fs
    ELSE processEach(processIndividualFile(fs, Head(ids), ProcessedSheets), Tail(ids))

InitStore ==
    /\ MarkupIdle
    /\ SheetIdle
    /\ DetectIdle
    /\ ParseIdle
    /\ FileIdle
    /\ ReindexIdle
    /\ ExportIdle
    /\ StoreIdle

OthersUnchanged ==
    UNCHANGED <<markupVars, sheetVars, detectVars, parseVars, fileVars, reindexVars, exportVars>>

\* addFiles(added): a pricelist and a setTimeout callback for each file.
AddFiles(added) ==
    /\ Len(files) + Len(added) <= MaxFiles
    /\ InFlight + Len(added) <= MaxTasks
    /\ nextId + Len(added) - 1 <= MaxId
    /\ files' = addFiles(files, nextId, added)
    /\ nextId' = nextId + Len(added)
    /\ timers' = timers (+) SetToBag({ [id |-> nextId + i - 1, file |-> added[i]] :
                                         i \in DOMAIN added })
    /\ UNCHANGED <<reading, globalProgress>>
    /\ OthersUnchanged

RemoveFile(id) ==
    /\ files' = removeFile(files, id)
    /\ UNCHANGED <<nextId, timers, reading, globalProgress>>
    /\ OthersUnchanged

UpdateCostColumn(id, columnIndex) ==
    /\ files' = updateCostColumn(files, id, columnIndex)
    /\ UNCHANGED <<nextId, timers, reading, globalProgress>>
    /\ OthersUnchanged

\* reset: the callbacks and the parses in flight are not cancelled.
Reset ==
    /\ files' = <<>>
    /\ nextId' = 1
    /\ globalProgress' = 0
    /\ UNCHANGED <<timers, reading>>
    /\ OthersUnchanged

\* processFiles, when some file is idle.
ProcessFiles ==
    LET unprocessedFiles == SelectSeq(files, LAMBDA f : f.status = "idle")
    IN /\ unprocessedFiles # <<>>
       /\ files' = processEach(files,
                               [i \in DOMAIN unprocessedFiles |-> unprocessedFiles[i].id])
       /\ globalProgress' = 100
       /\ UNCHANGED <<nextId, timers, reading>>
       /\ OthersUnchanged

\* A setTimeout callback of addFiles runs parseAndProcessFile up to the
\* await of the file read; a file validateFile refuses is not read and the
\* call goes on to its end.
TimerFires(task) ==
    /\ BagIn(task, timers)
    /\ timers' = timers (-) SetToBag({task})
    /\ IF validateFile(task.file)
       THEN /\ files' = startParsing(files, task.id)
            /\ reading' = reading (+) SetToBag({task})
       ELSE /\ files' = finishParsing(startParsing(files, task.id), task.id,
                                      ParsedFiles[task.file], ProcessedSheets)
            /\ UNCHANGED reading
    /\ UNCHANGED <<nextId, globalProgress>>
    /\ OthersUnchanged

\* The file read of a parse in flight ends: parseFile resolves and
\* parseAndProcessFile runs to its end.
ParseCompletes(task) ==
    /\ BagIn(task, reading)
    /\ reading' = reading (-) SetToBag({task})
    /\ files' = finishParsing(files, task.id, ParsedFiles[task.file], ProcessedSheets)
    /\ UNCHANGED <<nextId, timers, globalProgress>>
    /\ OthersUnchanged

NextStore ==
    \/ \E added \in SeqsUpTo(FileSamples, MaxFiles) \ {<<>>} : AddFiles(added)
    \/ \E id \in 1..MaxId : RemoveFile(id)
    \/ \E id \in 1..MaxId, columnIndex \in CostColumnSamples : UpdateCostColumn(id, columnIndex)
    \/ Reset
    \/ ProcessFiles
    \/ \E task \in Tasks : TimerFires(task)
    \/ \E task \in Tasks : ParseCompletes(task)

SpecStore == InitStore /\ [][NextStore]_vars

\* Every callback runs and every file read ends.
FairStore ==
    \A task \in Tasks : WF_vars(TimerFires(task)) /\ WF_vars(ParseCompletes(task))

SpecStoreFair == SpecStore /\ FairStore

\* ------------------------------------------------------------------ C23

\* What the four strategies return for the sheet and the options of the state.
ResultsOfStrategies ==
    StrategyResults(stringHeaders(originalData), dataRows(originalData), options)

\* The preconditions of detectCostPriceColumn hold for the sheet of the state.
DetectionPreconditions ==
    PreconditionsHold(stringHeaders(originalData), dataRows(originalData), options)

\* The strategies, by their place in the order, whose result meets minConfidence.
Qualifying(results) ==
    { i \in 1..4 : RatLeq(options.minConfidence, results[i].confidence) }

\* result is the result of strategy i, of greatest confidence among the
\* strategies of Q and the earliest of that confidence.
IsEarliestBest(result, i, Q, results) ==
    /\ result = results[i]
    /\ \A j \in Q :
           /\ RatLeq(results[j].confidence, results[i].confidence)
           /\ j < i => RatLess(results[j].confidence, results[i].confidence)

\* Some result qualifies and the result returned is the earliest of the
\* greatest confidence among the results that qualify.
ReturnsEarliestBest(results) ==
    Qualifying(results) # {}
    => \E i \in Qualifying(results) : IsEarliestBest(detection, i, Qualifying(results), results)

\* C23: when the preconditions hold and some strategy's result meets
\* minConfidence, detectCostPriceColumn returns the qualifying result of
\* greatest confidence, the earliest in the order exact, partial,
\* data-pattern, position when several have that confidence.
C23_BestQualifyingResult ==
    (Detected /\ DetectionPreconditions) => ReturnsEarliestBest(ResultsOfStrategies)

\* The data-pattern result, third in the order, is returned over the exact
\* and partial results that qualify with less confidence.
DataPatternOverEarlier(results) ==
    /\ Qualifying(results) = 1..4
    /\ detection = results[3]
    /\ RatLess(results[2].confidence, detection.confidence)
    /\ RatLess(RatZero, results[4].confidence)

C23_Witness ==
    Detected /\ DetectionPreconditions /\ DataPatternOverEarlier(ResultsOfStrategies)

\* The partial and the position results both have confidence 0.4 and the
\* partial result, the earlier, is returned.
PartialTiesWithPosition(results) ==
    /\ Qualifying(results) = {2, 4}
    /\ results[2].confidence = Rat(4, 10)
    /\ results[4].confidence = Rat(4, 10)
    /\ detection = results[2]

C23_TieWitness ==
    Detected /\ DetectionPreconditions /\ PartialTiesWithPosition(ResultsOfStrategies)

\* ------------------------------------------------------------------ C24

\* No result of the four strategies meets minConfidence.
NoneQualifies(results) == Qualifying(results) = {}

\* The strategies 2 to 4 whose result has a confidence of at least 0.1.
RelaxedFrom(results) == { i \in 2..4 : RatLeq(Rat(1, 10), results[i].confidence) }

\* The strategies 2 to 4 whose result has a confidence above 0.1.
StrictlyRelaxedFrom(results) == { i \in 2..4 : RatLess(Rat(1, 10), results[i].confidence) }

\* The result returned is the earliest of the greatest confidence among the
\* results of the strategies of Q, if there are any.
ReturnsEarliestBestOf(Q, results) ==
    Q # {} => \E i \in Q : IsEarliestBest(detection, i, Q, results)

\* C24: when the preconditions hold, no strategy meets minConfidence and
\* some result of strategies 2 to 4 has a confidence of at least 0.1 (a
\* partial match floored at exactly 0.1 included), detectCostPriceColumn
\* returns the result of greatest confidence among these, not a forced or a
\* failed result.
C24_RelaxedFallbackAtLeastTenth ==
    (Detected /\ DetectionPreconditions /\ NoneQualifies(ResultsOfStrategies))
    => ReturnsEarliestBestOf(RelaxedFrom(ResultsOfStrategies), ResultsOfStrategies)

\* The same for the results of a confidence above 0.1.
C24_RelaxedFallbackAboveTenth ==
    (Detected /\ DetectionPreconditions /\ NoneQualifies(ResultsOfStrategies))
    => ReturnsEarliestBestOf(StrictlyRelaxedFrom(ResultsOfStrategies), ResultsOfStrategies)

\* The fallback pass returns the data-pattern result that a minConfidence of
\* 0.96 had put aside.
FallbackReturnsDataPattern(results) ==
    /\ NoneQualifies(results)
    /\ StrictlyRelaxedFrom(results) # {}
    /\ detection = results[3]

C24_FallbackWitness ==
    Detected /\ DetectionPreconditions /\ FallbackReturnsDataPattern(ResultsOfStrategies)

\* A partial match floored at 0.1 is the only result of strategies 2 to 4
\* of a confidence of at least 0.1: it is not what is returned.
FlooredPartialIsDropped(results) ==
    /\ NoneQualifies(results)
    /\ RelaxedFrom(results) = {2}
    /\ results[2].confidence = Rat(1, 10)
    /\ detection # results[2]

C24_FlooredPartialWitness ==
    Detected /\ DetectionPreconditions /\ FlooredPartialIsDropped(ResultsOfStrategies)

\* ------------------------------------------------------------------ C25

\* analyzeNumericColumn of the column at colIndex of the sheet of the state.
AnalysisOfColumn(colIndex) == analyzeNumericColumn(columnData(dataRows(originalData), colIndex))

\* The analyses of all the columns of the headers, in the order of the columns.
ColumnAnalyses == [i \in DOMAIN originalData[1] |-> AnalysisOfColumn(i - 1)]

\* The columns (0-based) classified numeric.
NumericColumns(analyses) == { i - 1 : i \in { j \in DOMAIN analyses : analyses[j].isNumeric } }

\* Column c is numeric, no numeric column has a greater score and no
\* numeric column before it has the same score.
IsFirstOfHighestScore(c, analyses) ==
    /\ c \in NumericColumns(analyses)
    /\ \A o \in NumericColumns(analyses) :
           /\ RatLeq(analyses[o + 1].score, analyses[c + 1].score)
           /\ o < c => RatLess(analyses[o + 1].score, analyses[c + 1].score)

\* Neither the first pass nor the fallback pass has kept a result.
NoPassQualified(results) ==
    /\ FirstPass(results, options) = NoDetection
    /\ FallbackPass(results) = NoDetection

\* What is returned when no pass has kept a result: the first column of
\* the highest score at confidence min(score * 0.5, 0.4) by forced_numeric,
\* or column -1 at confidence 0 when no column is numeric.
IsForcedSelection(analyses) ==
    IF NumericColumns(analyses) = {}
    THEN detection.columnIndex = 0 - 1 /\ detection.confidence = RatZero
    ELSE /\ detection.detectionMethod = "forced_numeric"
         /\ IsFirstOfHighestScore(detection.columnIndex, analyses)
         /\ detection.confidence =
                RatMin(RatMul(analyses[detection.columnIndex + 1].score, Rat(5, 10)), Rat(4, 10))

ForcedOnlyAsLastResort(results, analyses) ==
    /\ detection.detectionMethod = "forced_numeric" => NoPassQualified(results)
    /\ NoPassQualified(results) => IsForcedSelection(analyses)

\* C25: a forced_numeric result is returned only when neither pass has
\* qualified a strategy; then it names the first column of the highest
\* numeric score at confidence min(score * 0.5, 0.4), and when no column is
\* numeric the result is column -1 at confidence 0.
C25_ForcedSelection ==
    (Detected /\ DetectionPreconditions)
    => ForcedOnlyAsLastResort(ResultsOfStrategies, ColumnAnalyses)

\* Two numeric columns, neither kept by a pass: of two columns of the same
\* score the first is forced.
ForcedFirstOfTwo(results, analyses) ==
    /\ NoPassQualified(results)
    /\ detection.detectionMethod = "forced_numeric"
    /\ \E o \in NumericColumns(analyses) :
           o > detection.columnIndex
           /\ analyses[o + 1].score = analyses[detection.columnIndex + 1].score

C25_Witness ==
    Detected /\ DetectionPreconditions /\ ForcedFirstOfTwo(ResultsOfStrategies, ColumnAnalyses)

\* Of two numeric columns the second has the greater score and is forced.
ForcedSecondOfTwo(results, analyses) ==
    /\ NoPassQualified(results)
    /\ detection.detectionMethod = "forced_numeric"
    /\ \E o \in NumericColumns(analyses) :
           o < detection.columnIndex
           /\ RatLess(analyses[o + 1].score, analyses[detection.columnIndex + 1].score)

C25_HigherScoreWitness ==
    Detected /\ DetectionPreconditions /\ ForcedSecondOfTwo(ResultsOfStrategies, ColumnAnalyses)

\* No column is numeric and no pass has kept a result: column -1.
C25_NoNumericWitness ==
    /\ Detected /\ DetectionPreconditions
    /\ NoPassQualified(ResultsOfStrategies)
    /\ NumericColumns(ColumnAnalyses) = {}
    /\ detection.columnIndex = 0 - 1

\* ------------------------------------------------------------------ C26

\* The cell parses as a valid non-null number via parseNumericValue.
ParsesAsNumber(value) ==
    IF value.k = "number" THEN ~isNaN(value.n)
    ELSE IF value.k = "string" THEN parseNumericValue(value.s) # Null
    ELSE FALSE

\* At least 0.5% of the rows of the column parse as valid non-null numbers.
HalfPercentParses(column) ==
    /\ column # <<>>
    /\ 1000 * Cardinality({ r \in DOMAIN column : ParsesAsNumber(column[r]) }) >= 5 * Len(column)

\* At least 0.5% of the non-null cells of the column are number-typed.
HalfPercentNumberTyped(column) ==
    /\ \E r \in DOMAIN column : IsNumberCell(column[r])
    /\ 1000 * Cardinality({ r \in DOMAIN column : IsNumberCell(column[r]) })
           >= 5 * Cardinality({ r \in DOMAIN column : column[r].k # "null" })

\* The columns of the sheet of the state, in the order of the headers.
ColumnsOfSheet ==
    [i \in DOMAIN originalData[1] |-> columnData(dataRows(originalData), i - 1)]

\* C26: the data-pattern strategy classifies a column as numeric when at
\* least 0.5% of its rows parse as valid non-null numbers via
\* parseNumericValue, cells of numeric text counting as number cells do.
C26_NumericTextCounts ==
    (Detected /\ DetectionPreconditions)
    => \A i \in DOMAIN ColumnsOfSheet :
           HalfPercentParses(ColumnsOfSheet[i]) => ColumnAnalyses[i].isNumeric

\* What the classification is: at least 0.5% of the non-null cells of the
\* column are of type number and not NaN.
C26_NumberTypedCount ==
    (Detected /\ DetectionPreconditions)
    => \A i \in DOMAIN ColumnsOfSheet :
           ColumnAnalyses[i].isNumeric <=> HalfPercentNumberTyped(ColumnsOfSheet[i])

\* A column of "$12.50" in every row is not classified numeric, and the
\* detection fails.
C26_TextColumnWitness ==
    /\ Detected /\ DetectionPreconditions
    /\ \E i \in DOMAIN ColumnsOfSheet :
           /\ \A r \in DOMAIN ColumnsOfSheet[i] : ColumnsOfSheet[i][r] = RowT[2]
           /\ ~ColumnAnalyses[i].isNumeric
    /\ detection.columnIndex = 0 - 1

\* ------------------------------------------------------------------ C27

\* The result of parseFile on the file a pricelist was created for.
OwnParse(pricelist) == ParsedFiles[FileNamed(pricelist.filename)]

\* The ProcessedData but for the column, which updateCostColumn may change.
BesidesColumn(processedData) == [processedData EXCEPT !.detectedCostColumn = 0]

\* The originalData, the processedData and the errors of the pricelist are
\* what parseFile and processIndividualFile give for its own file.
ProducedFromOwnFile(pricelist, own) ==
    /\ pricelist.originalData # <<>> =>
           own.success /\ pricelist.originalData = own.data
    /\ pricelist.processedData.present =>
           /\ own.success
           /\ BesidesColumn(pricelist.processedData)
                  = BesidesColumn(ProcessedSheets[own.data].processedData)
    /\ pricelist.status = "error" =>
           pricelist.errors = << IF own.success
                                 THEN ProcessedSheets[own.data].markupOutcome.code
                                 ELSE own.code >>

\* C27: under every interleaving of addFiles, removeFile, reset and the
\* callbacks and parse completions in flight, the originalData, the
\* processedData and the errors of each pricelist were produced from the
\* file the pricelist was created for.
C27_DataComeFromOwnFile ==
    \A i \in DOMAIN files : ProducedFromOwnFile(files[i], OwnParse(files[i]))

\* The step of a callback or of a parse completion changes no pricelist
\* created for another file than its own.
WritesOwnEntryOnly(task) ==
    \A i \in DOMAIN files :
        (i \in DOMAIN files' /\ files'[i] # files[i]) => files[i].filename = task.file.name

\* C27, as a property of the steps: a parse in flight writes its data,
\* status and errors into the pricelist of its own file only.
C27_NoWriteIntoOtherEntry ==
    [][\A task \in Tasks : (TimerFires(task) \/ ParseCompletes(task)) => WritesOwnEntryOnly(task)]_vars

\* After a reset and a second addFiles the pricelist of b.xlsx, which has
\* the id 1 again, holds the sheet of a.xlsx.
C27_MixedUpWitness ==
    \E i \in DOMAIN files :
        /\ files[i].filename = SupplierB
        /\ files[i].status = "completed"
        /\ files[i].originalData = ParsedFiles[FileA].data

\* ------------------------------------------------------------------ C28

HasFile(id) == \E i \in DOMAIN files : files[i].id = id

IsSettled(id) ==
    \E i \in DOMAIN files : files[i].id = id /\ files[i].status \in {"completed", "error"}

\* C28: every pricelist of the store is eventually completed or in error,
\* unless it is removed or reset away; the callbacks run and the file
\* reads end.
C28_EveryPricelistIsSettled ==
    \A id \in 1..MaxId : HasFile(id) ~> (~HasFile(id) \/ IsSettled(id))

\* Two pricelists have gone through parsing, one to completed and one to
\* error, and nothing is in flight.
C28_Witness ==
    /\ InFlight = 0
    /\ \E i \in DOMAIN files : files[i].status = "completed" /\ files[i].originalData # <<>>
    /\ \E i \in DOMAIN files : files[i].status = "error"

\* ------------------------------------------------------------------ C29

\* The detection of the sheet of the pricelist has failed.
DetectionFailed(pricelist) ==
    /\ pricelist.originalData # <<>>
    /\ ProcessedSheets[pricelist.originalData].detected.columnIndex = 0 - 1

StatusIsConsistent(pricelist) ==
    /\ pricelist.status = "completed" =>
           pricelist.processedData.present /\ pricelist.progress = 100
    /\ pricelist.status = "error" =>
           pricelist.progress = 0 /\ pricelist.errors # <<>>
    /\ pricelist.status = "idle" =>
           pricelist.originalData = <<>> /\ pricelist.progress = 0
    /\ DetectionFailed(pricelist) => pricelist.status # "completed"

\* C29: in every state of the store a completed pricelist has processedData
\* and progress 100, a pricelist in error has progress 0 and an error, an
\* idle pricelist has no originalData and progress 0, and a pricelist whose
\* detection failed is not completed.
C29_StatusIsConsistent == \A i \in DOMAIN files : StatusIsConsistent(files[i])

\* A completed pricelist beside one in error because its detection failed.
C29_Witness ==
    /\ \E i \in DOMAIN files : files[i].status = "completed" /\ files[i].progress = 100
    /\ \E i \in DOMAIN files :
           /\ DetectionFailed(files[i])
           /\ files[i].status = "error"
           /\ files[i].errors = <<"INVALID_COST_COLUMN_INDEX">>

\* ------------------------------------------------------------------ C30

\* From the pricelist before to the pricelist after, only
\* processedData.detectedCostColumn has changed, to columnIndex.
OnlyColumnChanged(before, after, columnIndex) ==
    /\ after.processedData.detectedCostColumn = columnIndex
    /\ after.processedData.present
    /\ after.processedData.confidence = before.processedData.confidence
    /\ after.processedData.markupColumns = before.processedData.markupColumns
    /\ after.processedData.dataWithMarkup = before.processedData.dataWithMarkup
    /\ after.processedData.headers = before.processedData.headers
    /\ after.processedData.rows = before.processedData.rows
    /\ after.processedData.totalRows = before.processedData.totalRows
    /\ after.status = before.status
    /\ after.progress = before.progress
    /\ after.errors = before.errors
    /\ after.originalData = before.originalData
    /\ after.id = before.id
    /\ after.filename = before.filename

\* The frame of a step of updateCostColumn(id, columnIndex).
UpdateCostColumnFrame(id, columnIndex) ==
    /\ DOMAIN files' = DOMAIN files
    /\ \A i \in DOMAIN files :
           IF files[i].id = id /\ files[i].processedData.present
           THEN OnlyColumnChanged(files[i], files'[i], columnIndex)
           ELSE files'[i] = files[i]
    /\ UNCHANGED <<nextId, timers, reading, globalProgress>>

====
